---- MODULE Spec2Model ----
(***************************************************************************)
(* Model of agitiser-notify's integration config mutators.                 *)
(*                                                                         *)
(*   - Claude mutator (src/src/integrations/claude.rs): apply_setup,       *)
(*     apply_remove and has_managed_hook over a serde_json::Value tree.    *)
(*   - Codex mutator (src/src/integrations/codex.rs): apply_setup and      *)
(*     apply_remove over the `notify` key of a TOML document and           *)
(*     LocalState.codex.previous_notify.                                   *)
(*                                                                         *)
(* JSON values are tagged records (serde_json::Value's variants).  A       *)
(* string is a sequence of whitespace-separated words, so that             *)
(* str::contains is a contiguous-subsequence test and not an identity.     *)
(* An object is a function from its keys to values (serde_json::Map).      *)
(***************************************************************************)
EXTENDS Integers, Sequences, FiniteSets, TLC

VARIABLES
    settings,         \* claude: the settings.json document (serde_json::Value)
    claude_before,    \* claude: the document the last operation was applied to
    claude_op,        \* claude: last operation applied: "init", "setup", "remove"
    claude_cmd,       \* claude: `command` argument of the last apply_setup
    claude_changed,   \* claude: bool returned by the last operation
    claude_prev,      \* claude: <<op, cmd>> of the operation before the last one
    doc_notify,       \* codex: the `notify` item of config.toml
    previous_notify,  \* codex: LocalState.codex.previous_notify
    codex_before,     \* codex: <<doc_notify, previous_notify>> before the last operation
    codex_op,         \* codex: last operation applied
    codex_desired,    \* codex: `desired` argument of the last apply_setup
    codex_changed,    \* codex: bool returned by the last operation
    codex_run,        \* codex: the run of consecutive setups the last operation belongs
                      \*        to or follows: document and state before it, its length
    codex_origin,     \* codex: <<doc_notify, previous_notify>> before the first operation
    pn_cwd,           \* project name: argument of project_name_from_cwd
    pn_name,          \* project name: what the call returned, Pending before it
    pn_fed,           \* project name: the argument is what the call before returned
    ev_agent,         \* normalize: the agent argument
    ev_payload,       \* normalize: the payload argument (serde_json::Value)
    ev_result,        \* normalize: what the call returned, Pending before it
    rd_event,         \* render: the NormalizedEvent argument
    rd_templates,     \* render: the TemplateConfig argument
    rd_labels,        \* render: the EventKindLabelsConfig argument
    rd_label,         \* render: the event-kind label resolved by the call
    rd_template,      \* render: what resolve_template returned inside the call
    rd_message,       \* render: what the call returned, Pending before it
    fs,               \* commands: the content of the three files
    cli,              \* commands: the last invocation: its command line, the files
                      \*           before it, what it wrote and what it returned
    rfs,              \* race: the text of the Codex config and of the state file
    race              \* race: the two invocations, the files they started from and
                      \*       what the two serial orders would leave

claude_vars == <<settings, claude_before, claude_op, claude_cmd, claude_changed, claude_prev>>
codex_vars == <<doc_notify, previous_notify, codex_before, codex_op, codex_desired,
                codex_changed, codex_run, codex_origin>>
path_vars == <<pn_cwd, pn_name, pn_fed>>
event_vars == <<ev_agent, ev_payload, ev_result>>
render_vars == <<rd_event, rd_templates, rd_labels, rd_label, rd_template, rd_message>>
race_vars == <<rfs, race>>
cli_vars == <<fs, cli, race_vars>>
vars == <<claude_vars, codex_vars, path_vars, event_vars, render_vars, cli_vars>>

(***************************************************************************)
(* serde_json::Value                                                       *)
(***************************************************************************)
JNull == [t |-> "null"]
JNum(n) == [t |-> "num", n |-> n]
JStr(s) == [t |-> "str", s |-> s]
JArr(a) == [t |-> "arr", a |-> a]
JObj(o) == [t |-> "obj", o |-> o]

\* Option::None for the accessors below.
None == [t |-> "none"]

EmptyMap == [k \in {} |-> None]

is_object(v) == v.t = "obj"
is_array(v) == v.t = "arr"

\* Value::get(&str): the member of an object, None for a missing key or a
\* value that is not an object.
Get(v, key) ==
    IF v.t = "obj" /\ key \in DOMAIN v.o THEN v.o[key] ELSE None

\* .and_then(Value::as_str).unwrap_or_default()
as_str_or_default(v) == IF v.t = "str" THEN v.s ELSE <<>>

\* Map::insert / Map::remove
MapInsert(o, key, v) == [k \in (DOMAIN o) \cup {key} |-> IF k = key THEN v ELSE o[k]]
MapRemove(o, key) == [k \in (DOMAIN o) \ {key} |-> o[k]]

\* str::contains on word sequences
Contains(s, sub) ==
    \E i \in 1..(Len(s) - Len(sub) + 1) : SubSeq(s, i, i + Len(sub) - 1) = sub

(***************************************************************************)
(* claude.rs constants                                                     *)
(***************************************************************************)
STOP_EVENT == "Stop"
SUBAGENT_STOP_EVENT == "SubagentStop"
PERMISSION_REQUEST_EVENT == "PermissionRequest"
PERMISSION_REQUEST_MATCHER == <<"ExitPlanMode">>
SOURCE_MARKER == <<"--source", "claude-hook">>
STAR_MATCHER == <<"*">>

ManagedEvents == <<STOP_EVENT, SUBAGENT_STOP_EVENT, PERMISSION_REQUEST_EVENT>>
ManagedEventSet == {STOP_EVENT, SUBAGENT_STOP_EVENT, PERMISSION_REQUEST_EVENT}

\* The matcher apply_setup passes to ensure_managed_hook for each event.
EventMatcher(event) ==
    IF event = PERMISSION_REQUEST_EVENT THEN PERMISSION_REQUEST_MATCHER ELSE STAR_MATCHER

\* managed_command: quoted_exe is the word produced by shell_quote.
managed_command(quoted_exe) ==
    <<"AGITISER_NOTIFY=1", quoted_exe, "ingest", "--agent", "claude",
      "--source", "claude-hook", ">/dev/null", "2>&1">>

is_managed_command(command) ==
    Contains(command, <<"ingest", "--agent", "claude">>) /\ Contains(command, SOURCE_MARKER)

(***************************************************************************)
(* ensure_managed_hook                                                     *)
(*                                                                         *)
(* The Rust functions mutate in place; here each step returns the new      *)
(* value next to the flags the code keeps in locals (`changed`,            *)
(* `desired_exists`), and a step hands its result to the next as an        *)
(* argument.                                                               *)
(***************************************************************************)
\* The closure given to hooks_array.retain (claude.rs 167-184), with the
\* captured `desired_exists` threaded through the hooks in order.
RECURSIVE retain_desired(_, _, _, _)
retain_desired(hooks_array, command, entry_matcher_matches, desired_exists) ==
    IF hooks_array = <<>> THEN [hooks |-> <<>>, desired_exists |-> desired_exists]
    ELSE LET hook == Head(hooks_array)
             hook_command == as_str_or_default(Get(hook, "command"))
             managed == is_managed_command(hook_command)
             keep_desired == /\ hook_command = command
                             /\ entry_matcher_matches
                             /\ ~desired_exists
             rest == retain_desired(Tail(hooks_array), command, entry_matcher_matches,
                                    desired_exists \/ (managed /\ keep_desired))
         IN  [hooks |-> IF ~managed \/ keep_desired
                        THEN <<hook>> \o rest.hooks ELSE rest.hooks,
              desired_exists |-> rest.desired_exists]

\* An entry after hooks_array.retain, with `changed` as set at claude.rs 186-188.
retained_entry(entry, r) ==
    [entry |-> JObj([entry.o EXCEPT !["hooks"] = JArr(r.hooks)]),
     desired_exists |-> r.desired_exists,
     changed |-> Len(r.hooks) # Len(entry.o["hooks"].a)]

\* The body of `for entry in event_hooks.iter_mut()` (claude.rs 156-189).
scan_entry(entry, command, matcher, desired_exists) ==
    IF is_array(Get(entry, "hooks"))
    THEN retained_entry(entry,
             retain_desired(entry.o["hooks"].a, command,
                            as_str_or_default(Get(entry, "matcher")) = matcher,
                            desired_exists))
    ELSE [entry |-> entry, desired_exists |-> desired_exists, changed |-> FALSE]

\* The loop of claude.rs 155-190: acc holds the entries scanned so far.
RECURSIVE scan_entries(_, _, _, _)
scan_step(acc, s) ==
    [entries |-> Append(acc.entries, s.entry),
     desired_exists |-> s.desired_exists,
     changed |-> acc.changed \/ s.changed]

scan_entries(acc, event_hooks, command, matcher) ==
    IF event_hooks = <<>> THEN acc
    ELSE scan_entries(scan_step(acc, scan_entry(Head(event_hooks), command, matcher,
                                                acc.desired_exists)),
                      Tail(event_hooks), command, matcher)

\* Mutant of entry_not_empty: entries left with an empty `hooks` array stay.
entry_not_empty_keep(entry) == TRUE

\* The closure of event_hooks.retain (claude.rs 193-199 and 244-250): an
\* entry stays unless its `hooks` is an array and that array is empty.
entry_not_empty(entry) ==
    IF is_array(Get(entry, "hooks")) THEN entry.o["hooks"].a # <<>> ELSE TRUE

\* event_hooks.retain(...) and the length test after it (claude.rs 192-202,
\* 243-253).
prune_empty_entries(scanned) ==
    [entries |-> SelectSeq(scanned.entries, entry_not_empty),
     changed |-> scanned.changed
                 \/ Len(SelectSeq(scanned.entries, entry_not_empty)) # Len(scanned.entries)]

\* json!({"matcher": matcher, "hooks": [{"type": "command", "command": command}]})
managed_entry(matcher, command) ==
    JObj(("matcher" :> JStr(matcher)) @@
         ("hooks" :> JArr(<<JObj(("type" :> JStr(<<"command">>)) @@
                                 ("command" :> JStr(command)))>>)))

\* `if !desired_exists { event_hooks.push(...) }` (claude.rs 204-215).
push_desired(pruned, desired_exists, command, matcher) ==
    IF desired_exists THEN [event_hooks |-> pruned.entries, changed |-> pruned.changed]
    ELSE [event_hooks |-> Append(pruned.entries, managed_entry(matcher, command)),
          changed |-> TRUE]

\* Mutant of ensure_after_scan: the desired entry is appended without
\* consulting desired_exists.
ensure_after_scan_always_push(scanned, command, matcher) ==
    push_desired(prune_empty_entries(scanned), FALSE, command, matcher)

\* claude.rs 192-217, given the result of the loop.
ensure_after_scan(scanned, command, matcher) ==
    push_desired(prune_empty_entries(scanned), scanned.desired_exists, command, matcher)

NoneScanned == [entries |-> <<>>, desired_exists |-> FALSE, changed |-> FALSE]

\* Mutant of ensure_managed_hook: every managed command equal to `command`
\* is kept, whatever the matcher of its entry and however many there are.
ensure_managed_hook_keep_all(event_hooks, command, matcher) ==
    LET stale(hook) == LET c == as_str_or_default(Get(hook, "command"))
                       IN  ~is_managed_command(c) \/ c = command
        strip(entry) == IF is_array(Get(entry, "hooks"))
                        THEN JObj([entry.o EXCEPT !["hooks"] =
                                       JArr(SelectSeq(entry.o["hooks"].a, stale))])
                        ELSE entry
        scanned == [i \in 1..Len(event_hooks) |-> strip(event_hooks[i])]
        retained == SelectSeq(scanned, entry_not_empty)
        desired_exists ==
            \E i \in 1..Len(retained) :
                /\ is_array(Get(retained[i], "hooks"))
                /\ \E j \in 1..Len(retained[i].o["hooks"].a) :
                       as_str_or_default(Get(retained[i].o["hooks"].a[j], "command")) = command
    IN  [event_hooks |-> IF desired_exists THEN retained
                         ELSE Append(retained, managed_entry(matcher, command)),
         changed |-> retained # event_hooks \/ ~desired_exists]

ensure_managed_hook(event_hooks, command, matcher) ==
    ensure_after_scan(scan_entries(NoneScanned, event_hooks, command, matcher),
                      command, matcher)

(***************************************************************************)
(* remove_managed_hooks                                                    *)
(***************************************************************************)
\* Mutant of hook_not_managed: a hook without a `command` string is dropped too.
hook_not_managed_strict(hook) ==
    IF Get(hook, "command").t = "str"
    THEN ~is_managed_command(Get(hook, "command").s) ELSE FALSE

\* The closure given to hooks_array.retain (claude.rs 230-236).
hook_not_managed(hook) == ~is_managed_command(as_str_or_default(Get(hook, "command")))

\* Mutant of strip_entry: only the first managed hook of an entry is dropped.
strip_entry_first_managed(entry) ==
    IF is_array(Get(entry, "hooks"))
       /\ \E i \in 1..Len(entry.o["hooks"].a) : ~hook_not_managed(entry.o["hooks"].a[i])
    THEN LET hooks == entry.o["hooks"].a
             k == CHOOSE i \in 1..Len(hooks) :
                      /\ ~hook_not_managed(hooks[i])
                      /\ \A j \in 1..(i - 1) : hook_not_managed(hooks[j])
         IN  [entry |-> JObj([entry.o EXCEPT !["hooks"] =
                                  JArr(SubSeq(hooks, 1, k - 1) \o SubSeq(hooks, k + 1, Len(hooks)))]),
              changed |-> TRUE]
    ELSE [entry |-> entry, changed |-> FALSE]

\* The body of `for entry in event_hooks.iter_mut()` (claude.rs 224-240).
strip_entry(entry) ==
    IF is_array(Get(entry, "hooks"))
    THEN [entry |-> JObj([entry.o EXCEPT !["hooks"] =
                              JArr(SelectSeq(entry.o["hooks"].a, hook_not_managed))]),
          changed |-> Len(SelectSeq(entry.o["hooks"].a, hook_not_managed))
                          # Len(entry.o["hooks"].a)]
    ELSE [entry |-> entry, changed |-> FALSE]

\* The loop of claude.rs 223-241.
strip_entries(event_hooks) ==
    [entries |-> [i \in 1..Len(event_hooks) |-> strip_entry(event_hooks[i]).entry],
     changed |-> \E i \in 1..Len(event_hooks) : strip_entry(event_hooks[i]).changed]

\* Mutant of remove_after_strip: pruning an entry is not reported.
remove_after_strip_quiet_prune(stripped) ==
    [event_hooks |-> SelectSeq(stripped.entries, entry_not_empty),
     changed |-> stripped.changed]

\* claude.rs 243-255, given the result of the loop.
remove_after_strip(stripped) ==
    [event_hooks |-> prune_empty_entries(stripped).entries,
     changed |-> prune_empty_entries(stripped).changed]

remove_managed_hooks(event_hooks) == remove_after_strip(strip_entries(event_hooks))

(***************************************************************************)
(* apply_setup                                                             *)
(***************************************************************************)
\* Mutant of ensure_root_object: the root is always replaced.
ensure_root_object_fresh(value) == EmptyMap

\* ensure_root_object: the root's map, {} for a root that is not an object.
ensure_root_object(value) == IF is_object(value) THEN value.o ELSE EmptyMap

\* ensure_object_entry(obj, key): obj with obj[key] made an object.
ensure_object_entry(obj, key) ==
    IF key \in DOMAIN obj /\ is_object(obj[key]) THEN obj
    ELSE MapInsert(obj, key, JObj(EmptyMap))

\* ensure_array_entry(obj, key): obj with obj[key] made an array.
ensure_array_entry(obj, key) ==
    IF key \in DOMAIN obj /\ is_array(obj[key]) THEN obj
    ELSE MapInsert(obj, key, JArr(<<>>))

\* The hooks object once ensure_managed_hook has rewritten hooks_obj[event].
store_event(hooks_obj, event, r) ==
    [hooks_obj |-> [hooks_obj EXCEPT ![event] = JArr(r.event_hooks)], changed |-> r.changed]

\* ensure_managed_hook on the array ensure_array_entry returned.
setup_ensured(ensured, event, command) ==
    store_event(ensured, event,
                ensure_managed_hook(ensured[event].a, command, EventMatcher(event)))

\* One `ensure_array_entry` + `ensure_managed_hook` pair of apply_setup
\* (claude.rs 56-59, 61-64, 66-73).
setup_event(hooks_obj, event, command) ==
    setup_ensured(ensure_array_entry(hooks_obj, event), event, command)

\* `if ensure_managed_hook(..) { changed = true; }`
or_changed(changed, s) == [hooks_obj |-> s.hooks_obj, changed |-> changed \/ s.changed]

\* The three pairs of apply_setup in their order.
RECURSIVE setup_events(_, _, _)
setup_events(acc, events, command) ==
    IF events = <<>> THEN acc
    ELSE setup_events(or_changed(acc.changed, setup_event(acc.hooks_obj, Head(events), command)),
                      Tail(events), command)

\* The document and `changed` once the events are done.
with_hooks(root_obj, r) ==
    [settings |-> JObj([root_obj EXCEPT !["hooks"] = JObj(r.hooks_obj)]),
     changed |-> r.changed]

\* apply_setup from claude.rs 56 on, root_obj["hooks"] being an object.
setup_in_root(root_obj, command) ==
    with_hooks(root_obj,
               setup_events([hooks_obj |-> root_obj["hooks"].o, changed |-> FALSE],
                            ManagedEvents, command))

claude_apply_setup(value, command) ==
    setup_in_root(ensure_object_entry(ensure_root_object(value), "hooks"), command)

(***************************************************************************)
(* apply_remove                                                            *)
(***************************************************************************)
\* Mutant of remove_event_result: removing an emptied event key is not
\* reported (the single-event revision of apply_remove).
remove_event_result_quiet(hooks_obj, event, r) ==
    IF r.event_hooks = <<>>
    THEN [hooks_obj |-> MapRemove(hooks_obj, event), changed |-> r.changed]
    ELSE [hooks_obj |-> [hooks_obj EXCEPT ![event] = JArr(r.event_hooks)],
          changed |-> r.changed]

\* claude.rs 94-102, r being what remove_managed_hooks made of the array.
remove_event_result(hooks_obj, event, r) ==
    IF r.event_hooks = <<>>
    THEN [hooks_obj |-> MapRemove(hooks_obj, event), changed |-> TRUE]
    ELSE [hooks_obj |-> [hooks_obj EXCEPT ![event] = JArr(r.event_hooks)],
          changed |-> r.changed]

\* One iteration of `for event in [...]` (claude.rs 91-103).
remove_event_step(hooks_obj, event) ==
    IF event \in DOMAIN hooks_obj /\ is_array(hooks_obj[event])
    THEN remove_event_result(hooks_obj, event, remove_managed_hooks(hooks_obj[event].a))
    ELSE [hooks_obj |-> hooks_obj, changed |-> FALSE]

\* The loop of claude.rs 91-103.
RECURSIVE remove_events(_, _)
remove_events(acc, events) ==
    IF events = <<>> THEN acc
    ELSE remove_events(or_changed(acc.changed, remove_event_step(acc.hooks_obj, Head(events))),
                       Tail(events))

\* Mutant of prune_hooks: the emptied `hooks` object is left in place.
prune_hooks_keep(root_obj, r) ==
    [settings |-> JObj([root_obj EXCEPT !["hooks"] = JObj(r.hooks_obj)]),
     changed |-> r.changed]

\* claude.rs 105-110.
prune_hooks(root_obj, r) ==
    IF DOMAIN r.hooks_obj = {}
    THEN [settings |-> JObj(MapRemove(root_obj, "hooks")), changed |-> TRUE]
    ELSE [settings |-> JObj([root_obj EXCEPT !["hooks"] = JObj(r.hooks_obj)]),
          changed |-> r.changed]

claude_apply_remove(value) ==
    IF ~is_object(value) THEN [settings |-> value, changed |-> FALSE]
    ELSE IF ~is_object(Get(value, "hooks")) THEN [settings |-> value, changed |-> FALSE]
    ELSE prune_hooks(value.o,
                     remove_events([hooks_obj |-> value.o["hooks"].o, changed |-> FALSE],
                                   ManagedEvents))

(***************************************************************************)
(* has_managed_hook (is_configured)                                        *)
(***************************************************************************)
hook_is_managed(hook) ==
    IF Get(hook, "command").t = "str"
    THEN is_managed_command(Get(hook, "command").s) ELSE FALSE

entry_has_managed_hook(entry) ==
    IF is_array(Get(entry, "hooks"))
    THEN \E j \in 1..Len(entry.o["hooks"].a) : hook_is_managed(entry.o["hooks"].a[j])
    ELSE FALSE

\* Mutant of event_has_managed_hook: only the first entry is inspected.
event_has_managed_hook_first(entries) ==
    entries # <<>> /\ entry_has_managed_hook(entries[1])

event_has_managed_hook(entries) ==
    \E i \in 1..Len(entries) : entry_has_managed_hook(entries[i])

has_managed_hook(value) ==
    IF ~is_object(Get(value, "hooks")) THEN FALSE
    ELSE \E event \in ManagedEventSet :
            IF is_array(Get(Get(value, "hooks"), event))
            THEN event_has_managed_hook(Get(Get(value, "hooks"), event).a)
            ELSE FALSE

(***************************************************************************)
(* Bounded universe of settings documents                                  *)
(***************************************************************************)
\* Largest weight of an event array drawn by Init, where an entry weighs
\* one plus the number of its hooks.
MaxWeight == 4

\* shell_quote'd executable paths: the current one and a stale one.
QuotedExes == {"'/tmp/agitiser-notify'", "'/opt/old/agitiser-notify'"}
SetupCommands == {managed_command(q) : q \in QuotedExes}

CommandHook(command) ==
    JObj(("type" :> JStr(<<"command">>)) @@ ("command" :> JStr(command)))
ForeignHook == CommandHook(<<"echo", "custom">>)
\* A managed command stored without the trailing redirection.
BareManagedHook ==
    CommandHook(<<"AGITISER_NOTIFY=1", "'/tmp/agitiser-notify'", "ingest", "--agent",
                  "claude", "--source", "claude-hook">>)
\* A hook object without a `command` string, and a hook that is no object.
NoCommandHook == JObj("type" :> JStr(<<"prompt">>))
NumCommandHook == JObj("command" :> JNum(7))

HookPool == {ForeignHook} \cup {CommandHook(c) : c \in SetupCommands}
Matchers == {STAR_MATCHER, PERMISSION_REQUEST_MATCHER}

Entry(matcher, hooks) == JObj(("matcher" :> JStr(matcher)) @@ ("hooks" :> JArr(hooks)))
NoMatcherEntry(hooks) == JObj("hooks" :> JArr(hooks))

SpecialEntries(w) ==
    CASE w = 1 -> { JStr(<<"entry">>),
                    JObj(("matcher" :> JStr(STAR_MATCHER)) @@ ("hooks" :> JStr(<<"none">>))) }
      [] w = 2 -> { NoMatcherEntry(<<BareManagedHook>>),
                    JObj(("matcher" :> JNum(1)) @@
                         ("hooks" :> JArr(<<CommandHook(managed_command("'/tmp/agitiser-notify'"))>>))) }
      [] w = 3 -> { NoMatcherEntry(<<ForeignHook, BareManagedHook>>),
                    Entry(STAR_MATCHER, <<NoCommandHook, NumCommandHook>>) }
      [] OTHER -> {}

EntriesOfWeight(w) ==
    {Entry(m, hs) : m \in Matchers, hs \in [1..(w - 1) -> HookPool]} \cup SpecialEntries(w)

RECURSIVE ArraysOfWeight(_)
ArraysOfWeight(w) ==
    IF w = 0 THEN {<<>>}
    ELSE UNION { {<<e>> \o rest : e \in EntriesOfWeight(k), rest \in ArraysOfWeight(w - k)}
                 : k \in 1..w }

EventArrays == UNION {ArraysOfWeight(w) : w \in 0..MaxWeight}

\* What a document holds beside the event array under study (`focus`): the
\* values of the other managed events (None: key absent), an unmanaged event
\* key and a top-level key.
OtherEventValue == JArr(<<NoMatcherEntry(<<>>)>>)
TopLevelValue == JStr(<<"opus">>)

Frames ==
    { [focus |-> STOP_EVENT,
       others |-> [e \in ManagedEventSet |-> None], other |-> FALSE, top |-> FALSE],
      [focus |-> SUBAGENT_STOP_EVENT,
       others |-> (STOP_EVENT :> JStr(<<"off">>)) @@
                  (SUBAGENT_STOP_EVENT :> None) @@
                  (PERMISSION_REQUEST_EVENT :>
                       JArr(<<Entry(STAR_MATCHER, <<ForeignHook, BareManagedHook>>)>>)),
       other |-> TRUE, top |-> FALSE],
      [focus |-> PERMISSION_REQUEST_EVENT,
       others |-> [e \in ManagedEventSet |->
                       JArr(<<managed_entry(EventMatcher(e),
                                            managed_command("'/tmp/agitiser-notify'"))>>)],
       other |-> TRUE, top |-> TRUE] }

MkDoc(value, frame) ==
    LET keys == {frame.focus} \cup {e \in ManagedEventSet : frame.others[e] # None}
                              \cup (IF frame.other THEN {"Other"} ELSE {})
        hooks_obj == [k \in keys |-> IF k = frame.focus THEN value
                                     ELSE IF k = "Other" THEN OtherEventValue
                                     ELSE frame.others[k]]
    IN  JObj(("hooks" :> JObj(hooks_obj)) @@
             (IF frame.top THEN ("model" :> TopLevelValue) ELSE EmptyMap))

SpecialDocs ==
    { JNull, JArr(<<>>), JStr(<<"settings">>),
      JObj(EmptyMap),
      JObj("model" :> TopLevelValue),
      JObj("hooks" :> JNull),
      JObj(("hooks" :> JArr(<<>>)) @@ ("model" :> TopLevelValue)),
      JObj("hooks" :> JObj(EmptyMap)),
      JObj("hooks" :> JObj("Other" :> OtherEventValue)),
      JObj("hooks" :> JObj((STOP_EVENT :> JArr(<<>>)) @@ ("Other" :> OtherEventValue))),
      JObj("hooks" :> JObj((STOP_EVENT :> JArr(<<>>)) @@ (SUBAGENT_STOP_EVENT :> JArr(<<>>))
                           @@ (PERMISSION_REQUEST_EVENT :> JArr(<<>>)))) }

ClaudeDocs ==
    SpecialDocs \cup
    {MkDoc(JArr(a), frame) : a \in EventArrays, frame \in Frames}

(***************************************************************************)
(* Claude: state machine                                                   *)
(***************************************************************************)
CodexIdle ==
    /\ doc_notify = None
    /\ previous_notify = None
    /\ codex_before = <<None, None>>
    /\ codex_op = "init"
    /\ codex_desired = <<>>
    /\ codex_changed = FALSE
    /\ codex_run = [notify |-> None, previous_notify |-> None, setups |-> 0]
    /\ codex_origin = <<None, None>>

\* Files: a file is missing, blank (it exists and holds only whitespace),
\* holds text that does not parse, or holds the text of a document.
MissingFile == [t |-> "missing"]
BlankFile == [t |-> "blank"]
GarbageFile == [t |-> "garbage"]
FileOf(document) == [t |-> "doc", d |-> document]

\* The three files of an invocation.
FileNames == {"claude", "codex", "state"}

\* No invocation has run.
NoCommand == [c |-> "none"]
NoRun(files) ==
    [cmd |-> NoCommand, before |-> files, written |-> {}, changed |-> {}, state |-> None,
     ok |-> TRUE, spoke |-> None, repeat |-> FALSE]

\* No race is on.
RaceIdle ==
    /\ rfs = [codex |-> MissingFile, state |-> MissingFile]
    /\ race = [start |-> rfs, serial |-> {}, p |-> <<>>]

CliIdle ==
    /\ fs = [name \in FileNames |-> MissingFile]
    /\ cli = NoRun(fs)
    /\ RaceIdle

\* A call that has not returned yet.
Pending == [t |-> "pending"]

\* A call that returned v.
Returned(v) == [t |-> "returned", v |-> v]

PathIdle ==
    /\ pn_cwd = None
    /\ pn_name = Pending
    /\ pn_fed = FALSE

EventIdle ==
    /\ ev_agent = "claude"
    /\ ev_payload = JNull
    /\ ev_result = Pending

RenderIdle ==
    /\ rd_event = None
    /\ rd_templates = None
    /\ rd_labels = None
    /\ rd_label = Pending
    /\ rd_template = Pending
    /\ rd_message = Pending

ClaudeInit ==
    /\ settings \in ClaudeDocs
    /\ claude_before = settings
    /\ claude_op = "init"
    /\ claude_cmd = <<>>
    /\ claude_changed = FALSE
    /\ claude_prev = <<"none", <<>>>>
    /\ CodexIdle
    /\ PathIdle
    /\ EventIdle
    /\ RenderIdle
    /\ CliIdle

\* The state after an operation that returned r.
ClaudeStep(op, command, r) ==
    /\ settings' = r.settings
    /\ claude_before' = settings
    /\ claude_op' = op
    /\ claude_cmd' = command
    /\ claude_changed' = r.changed
    /\ claude_prev' = <<claude_op, claude_cmd>>
    /\ UNCHANGED <<codex_vars, path_vars, event_vars, render_vars, cli_vars>>

\* apply_setup(&mut settings, &command)
ClaudeSetup ==
    \E command \in SetupCommands :
        ClaudeStep("setup", command, claude_apply_setup(settings, command))

\* apply_remove(&mut settings)
ClaudeRemove == ClaudeStep("remove", <<>>, claude_apply_remove(settings))

ClaudeNext == ClaudeSetup \/ ClaudeRemove

Spec == ClaudeInit /\ [][ClaudeNext]_vars

(***************************************************************************)
(* Codex mutator: toml_edit items and Option<Vec<String>>                  *)
(***************************************************************************)
\* toml_edit values of the `notify` item; None is an absent key.
TStr(s) == [t |-> "str", s |-> s]
TInt(n) == [t |-> "int", n |-> n]
TArr(a) == [t |-> "arr", a |-> a]

Some(v) == [t |-> "some", v |-> v]

SOURCE_VALUE == "codex-notify"

managed_notify_command(executable_path) ==
    <<executable_path, "ingest", "--agent", "codex", "--source", SOURCE_VALUE>>

is_managed_notify(notify) ==
    LET has(needle) == \E i \in 1..Len(notify) : notify[i] = needle
    IN  has("ingest") /\ has("--agent") /\ has("codex") /\ has("--source") /\ has(SOURCE_VALUE)

\* extract_notify: Some(strings) only for an array all of whose items are strings.
extract_notify(item) ==
    IF item = None THEN None
    ELSE IF item.t # "arr" THEN None
    ELSE IF \A i \in 1..Len(item.a) : item.a[i].t = "str"
         THEN Some([i \in 1..Len(item.a) |-> item.a[i].s])
         ELSE None

\* set_notify: the array item built from a command.
set_notify(command) == TArr([i \in 1..Len(command) |-> TStr(command[i])])

\* Mutant of codex_apply_setup: any managed `notify` counts as configured.
codex_apply_setup_skip_managed(item, previous, desired) ==
    LET existing == extract_notify(item)
    IN  IF existing # None /\ is_managed_notify(existing.v)
        THEN [notify |-> item, previous_notify |-> previous, changed |-> FALSE]
        ELSE IF existing # None
        THEN [notify |-> set_notify(desired),
              previous_notify |-> IF previous = None THEN Some(existing.v) ELSE previous,
              changed |-> TRUE]
        ELSE [notify |-> set_notify(desired), previous_notify |-> previous, changed |-> TRUE]

\* Mutant of codex_apply_setup: a foreign `notify` is captured over whatever
\* previous_notify holds.
codex_apply_setup_overwrite(item, previous, desired) ==
    LET existing == extract_notify(item)
    IN  IF existing # None /\ existing.v = desired
        THEN [notify |-> item, previous_notify |-> previous, changed |-> FALSE]
        ELSE IF existing # None /\ is_managed_notify(existing.v)
        THEN [notify |-> set_notify(desired), previous_notify |-> previous, changed |-> TRUE]
        ELSE IF existing # None
        THEN [notify |-> set_notify(desired), previous_notify |-> Some(existing.v),
              changed |-> TRUE]
        ELSE [notify |-> set_notify(desired), previous_notify |-> previous, changed |-> TRUE]

\* Mutant of codex_apply_setup: a `notify` other than the desired one is
\* captured before the managed test.
codex_apply_setup_capture_first(item, previous, desired) ==
    LET existing == extract_notify(item)
    IN  IF existing # None /\ existing.v = desired
        THEN [notify |-> item, previous_notify |-> previous, changed |-> FALSE]
        ELSE IF existing # None
        THEN [notify |-> set_notify(desired),
              previous_notify |-> IF previous = None THEN Some(existing.v) ELSE previous,
              changed |-> TRUE]
        ELSE [notify |-> set_notify(desired), previous_notify |-> previous, changed |-> TRUE]

codex_apply_setup(item, previous, desired) ==
    LET existing == extract_notify(item)
    IN  IF existing # None /\ existing.v = desired
        THEN [notify |-> item, previous_notify |-> previous, changed |-> FALSE]
        ELSE IF existing # None /\ is_managed_notify(existing.v)
        THEN [notify |-> set_notify(desired), previous_notify |-> previous, changed |-> TRUE]
        ELSE IF existing # None
        THEN [notify |-> set_notify(desired),
              previous_notify |-> IF previous = None THEN Some(existing.v) ELSE previous,
              changed |-> TRUE]
        ELSE [notify |-> set_notify(desired), previous_notify |-> previous, changed |-> TRUE]

\* Mutant of codex_apply_remove: previous_notify is taken before the
\* managed test, so a no-op remove empties it.
codex_apply_remove_take_first(item, previous) ==
    LET existing == extract_notify(item)
    IN  IF existing = None
        THEN [notify |-> item, previous_notify |-> None, changed |-> FALSE]
        ELSE IF ~is_managed_notify(existing.v)
        THEN [notify |-> item, previous_notify |-> None, changed |-> FALSE]
        ELSE IF previous # None
        THEN [notify |-> set_notify(previous.v), previous_notify |-> None, changed |-> TRUE]
        ELSE [notify |-> None, previous_notify |-> None, changed |-> TRUE]

\* Mutant of codex_apply_remove: the managed `notify` is always deleted.
codex_apply_remove_delete(item, previous) ==
    LET existing == extract_notify(item)
    IN  IF existing = None
        THEN [notify |-> item, previous_notify |-> previous, changed |-> FALSE]
        ELSE IF ~is_managed_notify(existing.v)
        THEN [notify |-> item, previous_notify |-> previous, changed |-> FALSE]
        ELSE [notify |-> None, previous_notify |-> None, changed |-> TRUE]

\* Mutant of codex_apply_remove: previous_notify is read, not taken.
codex_apply_remove_keep_previous(item, previous) ==
    LET existing == extract_notify(item)
    IN  IF existing = None
        THEN [notify |-> item, previous_notify |-> previous, changed |-> FALSE]
        ELSE IF ~is_managed_notify(existing.v)
        THEN [notify |-> item, previous_notify |-> previous, changed |-> FALSE]
        ELSE IF previous # None
        THEN [notify |-> set_notify(previous.v), previous_notify |-> previous, changed |-> TRUE]
        ELSE [notify |-> None, previous_notify |-> None, changed |-> TRUE]

codex_apply_remove(item, previous) ==
    LET existing == extract_notify(item)
    IN  IF existing = None
        THEN [notify |-> item, previous_notify |-> previous, changed |-> FALSE]
        ELSE IF ~is_managed_notify(existing.v)
        THEN [notify |-> item, previous_notify |-> previous, changed |-> FALSE]
        ELSE IF previous # None
        THEN [notify |-> set_notify(previous.v), previous_notify |-> None, changed |-> TRUE]
        ELSE [notify |-> None, previous_notify |-> None, changed |-> TRUE]

\* is_configured, after the file has been loaded.
codex_is_configured(item) ==
    LET n == extract_notify(item) IN n # None /\ is_managed_notify(n.v)

(***************************************************************************)
(* Codex: bounded universe and state machine                               *)
(***************************************************************************)
ExePaths == {"/tmp/agitiser-notify", "/opt/old/agitiser-notify"}
DesiredCommands == {managed_notify_command(e) : e \in ExePaths}

ForeignNotifies ==
    { <<>>, <<"notify-send", "Codex">>, <<"say", "done">>,
      <<"ingest", "--agent", "codex">>,
      <<"wrap", "ingest", "--agent", "claude", "--source", "codex-notify">> }

ManagedNotifies ==
    DesiredCommands \cup
    { <<"codex-notify", "--source", "codex", "--agent", "ingest">>,
      <<"/tmp/agitiser-notify", "ingest", "--agent", "codex", "--source", "codex-notify",
        "--verbose">> }

NotifyItems ==
    {None, TStr("notify-send"), TInt(1),
     TArr(<<TStr("notify-send"), TInt(3)>>),
     TArr(<<TInt(0)>> \o set_notify(managed_notify_command("/tmp/agitiser-notify")).a)}
    \cup {set_notify(n) : n \in ForeignNotifies \cup ManagedNotifies}

PreviousNotifies == {None} \cup {Some(n) : n \in ForeignNotifies}

\* The length of a run of setups is counted up to this number.
MaxSetups == 2

ClaudeIdle ==
    /\ settings = JObj(EmptyMap)
    /\ claude_before = JObj(EmptyMap)
    /\ claude_op = "init"
    /\ claude_cmd = <<>>
    /\ claude_changed = FALSE
    /\ claude_prev = <<"none", <<>>>>

CodexInit ==
    /\ doc_notify \in NotifyItems
    /\ previous_notify \in PreviousNotifies
    /\ codex_before = <<doc_notify, previous_notify>>
    /\ codex_op = "init"
    /\ codex_desired = <<>>
    /\ codex_changed = FALSE
    /\ codex_run = [notify |-> doc_notify, previous_notify |-> previous_notify, setups |-> 0]
    /\ codex_origin = <<doc_notify, previous_notify>>
    /\ ClaudeIdle
    /\ PathIdle
    /\ EventIdle
    /\ RenderIdle
    /\ CliIdle

\* apply_setup(&mut doc, &mut state, &desired)
CodexSetup ==
    \E desired \in DesiredCommands :
        LET r == codex_apply_setup(doc_notify, previous_notify, desired)
        IN  /\ doc_notify' = r.notify
            /\ previous_notify' = r.previous_notify
            /\ codex_before' = <<doc_notify, previous_notify>>
            /\ codex_op' = "setup"
            /\ codex_desired' = desired
            /\ codex_changed' = r.changed
            /\ codex_run' = IF codex_op = "setup"
                            THEN [codex_run EXCEPT !.setups =
                                     IF @ < MaxSetups THEN @ + 1 ELSE @]
                            ELSE [notify |-> doc_notify, previous_notify |-> previous_notify,
                                  setups |-> 1]
            /\ UNCHANGED codex_origin
            /\ UNCHANGED <<claude_vars, path_vars, event_vars, render_vars, cli_vars>>

\* apply_remove(&mut doc, &mut state)
CodexRemove ==
    LET r == codex_apply_remove(doc_notify, previous_notify)
    IN  /\ doc_notify' = r.notify
        /\ previous_notify' = r.previous_notify
        /\ codex_before' = <<doc_notify, previous_notify>>
        /\ codex_op' = "remove"
        /\ codex_desired' = <<>>
        /\ codex_changed' = r.changed
        /\ codex_run' = IF codex_op = "setup" THEN codex_run
                        ELSE [notify |-> doc_notify, previous_notify |-> previous_notify,
                              setups |-> 0]
        /\ UNCHANGED codex_origin
        /\ UNCHANGED <<claude_vars, path_vars, event_vars, render_vars, cli_vars>>

CodexNext == CodexSetup \/ CodexRemove

CodexSpec == CodexInit /\ [][CodexNext]_vars

\* What a user writes into `notify` between two invocations.
EditedNotifies ==
    {None, TStr("notify-send"), set_notify(<<"say", "done">>),
     set_notify(<<"codex-notify", "--source", "codex", "--agent", "ingest">>),
     set_notify(managed_notify_command("/opt/old/agitiser-notify"))}

\* The user edits `notify` of config.toml by hand.
CodexEdit ==
    \E item \in EditedNotifies :
        /\ item # doc_notify
        /\ doc_notify' = item
        /\ codex_before' = <<doc_notify, previous_notify>>
        /\ codex_op' = "edit"
        /\ codex_desired' = <<>>
        /\ codex_changed' = FALSE
        /\ codex_run' = [notify |-> item, previous_notify |-> previous_notify, setups |-> 0]
        /\ UNCHANGED <<previous_notify, codex_origin>>
        /\ UNCHANGED <<claude_vars, path_vars, event_vars, render_vars, cli_vars>>

CodexEditNext == CodexSetup \/ CodexRemove \/ CodexEdit

CodexEditSpec == CodexInit /\ [][CodexEditNext]_vars

(***************************************************************************)
(* Strings of the event normalizer and the renderer                        *)
(*                                                                         *)
(* A string is a sequence of atoms.  "/", ".", "-", "_", " " and the other *)
(* punctuation are atoms of their own; a run of letters is one atom or     *)
(* several, so that substring tests, trimming, splitting and case folding  *)
(* work on the pieces they can tell apart.                                 *)
(***************************************************************************)
\* char::is_whitespace, on the atoms in use.
is_whitespace(atom) == atom \in {" ", "\t"}

\* str::trim_start
RECURSIVE trim_start(_)
trim_start(s) ==
    IF s = <<>> THEN <<>>
    ELSE IF is_whitespace(Head(s)) THEN trim_start(Tail(s)) ELSE s

\* str::trim_end
RECURSIVE trim_end(_)
trim_end(s) ==
    IF s = <<>> THEN <<>>
    ELSE IF is_whitespace(s[Len(s)]) THEN trim_end(SubSeq(s, 1, Len(s) - 1)) ELSE s

\* str::trim
trim(s) == trim_end(trim_start(s))

\* str::trim_end_matches(ch)
RECURSIVE trim_end_matches(_, _)
trim_end_matches(s, ch) ==
    IF s = <<>> THEN <<>>
    ELSE IF s[Len(s)] = ch THEN trim_end_matches(SubSeq(s, 1, Len(s) - 1), ch) ELSE s

(***************************************************************************)
(* project_name_from_cwd (event.rs)                                        *)
(***************************************************************************)
UNKNOWN_PROJECT == <<"unknown", " ", "project">>

\* The text after the last "/" of a path.
RECURSIVE last_segment(_)
last_segment(path) ==
    IF path = <<>> THEN <<>>
    ELSE IF path[Len(path)] = "/" THEN <<>>
    ELSE Append(last_segment(SubSeq(path, 1, Len(path) - 1)), path[Len(path)])

\* The path before its last segment and the separator in front of it.
before_last_segment(path, segment) == SubSeq(path, 1, Len(path) - Len(segment) - 1)

\* std::path::Path::file_name: the last component when it is a normal one.
\* Components read from the back skip empty segments and "."; a last
\* component "..", the root or a leading "." give None.
RECURSIVE file_name(_)
file_name_from(path, segment) ==
    IF segment = <<>> \/ segment = <<".">>
    THEN file_name(before_last_segment(path, segment))
    ELSE IF segment = <<".", ".">> THEN None
    ELSE Some(segment)

file_name(path) == IF path = <<>> THEN None ELSE file_name_from(path, last_segment(path))

\* Mutant of candidate_of: the trimmed string is taken even when it is empty.
candidate_of_trimmed(cwd, trimmed) == trimmed

\* `let candidate = if trimmed.is_empty() { cwd } else { trimmed };`
candidate_of(cwd, trimmed) == IF trimmed = <<>> THEN cwd ELSE trimmed

\* event.rs 41-46: the file name of the candidate, else the candidate.
name_of_candidate(candidate, name) ==
    IF name = None THEN candidate
    ELSE IF name.v = <<>> THEN candidate
    ELSE name.v

\* event.rs 38-46, cwd being trimmed and not empty.
project_name_of_candidate(candidate) == name_of_candidate(candidate, file_name(candidate))

project_name_of_cwd(cwd) ==
    project_name_of_candidate(candidate_of(cwd, trim_end_matches(cwd, "/")))

\* project_name_from_cwd(cwd: Option<&str>)
project_name_from_cwd(cwd) ==
    IF cwd = None THEN UNKNOWN_PROJECT
    ELSE IF trim(cwd.v) = <<>> THEN UNKNOWN_PROJECT
    ELSE project_name_of_cwd(trim(cwd.v))

(***************************************************************************)
(* project_name_from_cwd: bounded universe and state machine               *)
(***************************************************************************)
MaxPathLen == 5

PathAtoms == {"/", ".", " ", "app"}

RECURSIVE PathsOfLen(_)
PathsOfLen(n) ==
    IF n = 0 THEN {<<>>}
    ELSE {Append(p, a) : p \in PathsOfLen(n - 1), a \in PathAtoms}

LongPaths ==
    { <<"/", "a", "/", "b", "/", "c", "/">>,
      <<"/", "home", "/", "x", "/", "Projects", "/", "app">>,
      <<"\t", "/", "srv", "/", "my", " ", "app", "/", "/", " ">>,
      UNKNOWN_PROJECT }

CwdInputs ==
    {None} \cup {Some(p) : p \in LongPaths \cup UNION {PathsOfLen(n) : n \in 0..MaxPathLen}}

PathInit ==
    /\ pn_cwd \in CwdInputs
    /\ pn_name = Pending
    /\ pn_fed = FALSE
    /\ ClaudeIdle
    /\ CodexIdle
    /\ EventIdle
    /\ RenderIdle
    /\ CliIdle

\* project_name_from_cwd(cwd)
PathCall ==
    /\ pn_name = Pending
    /\ pn_name' = Returned(project_name_from_cwd(pn_cwd))
    /\ UNCHANGED <<pn_cwd, pn_fed>>
    /\ UNCHANGED <<claude_vars, codex_vars, event_vars, render_vars, cli_vars>>

\* project_name_from_cwd(Some(name)) with the name the last call returned
PathFeed ==
    /\ pn_name # Pending
    /\ ~pn_fed
    /\ pn_cwd' = Some(pn_name.v)
    /\ pn_name' = Returned(project_name_from_cwd(Some(pn_name.v)))
    /\ pn_fed' = TRUE
    /\ UNCHANGED <<claude_vars, codex_vars, event_vars, render_vars, cli_vars>>

PathNext == PathCall \/ PathFeed

PathSpec == PathInit /\ [][PathNext]_vars

(***************************************************************************)
(* normalize (event.rs)                                                    *)
(***************************************************************************)
Agents == {"claude", "codex", "generic"}

\* Agent::display_name
display_name(agent) ==
    CASE agent = "claude" -> <<"Claude">>
      [] agent = "codex" -> <<"Codex">>
      [] agent = "generic" -> <<"Agent">>

HOOK_STOP == <<"Stop">>
HOOK_SUBAGENT_STOP == <<"Subagent", "Stop">>
HOOK_PERMISSION_REQUEST == <<"Permission", "Request">>
EXIT_PLAN_MODE == <<"ExitPlanMode">>
TASK_END == <<"task", "-", "end">>
PLAN_END == <<"plan", "-", "end">>
AGENT_TURN_COMPLETE == <<"agent", "-", "turn", "-", "complete">>
AGENT_PLAN_COMPLETE == <<"agent", "-", "plan", "-", "complete">>

\* The atoms with ASCII upper-case letters, and their lower-case forms.
AsciiLower ==
    ("Stop" :> "stop") @@ ("STOP" :> "stop") @@ ("Subagent" :> "subagent") @@
    ("Done" :> "done") @@ ("DONE" :> "done") @@ ("Task" :> "task") @@
    ("End" :> "end") @@ ("Finish" :> "finish") @@ ("Agent" :> "agent") @@
    ("Complete" :> "complete") @@ ("Turn" :> "turn") @@ ("Build" :> "build")

\* str::to_ascii_lowercase
to_ascii_lowercase(s) ==
    [i \in 1..Len(s) |-> IF s[i] \in DOMAIN AsciiLower THEN AsciiLower[s[i]] ELSE s[i]]

\* Value::as_str, on the result of a get.
as_str(value) == IF value.t = "str" THEN Some(value.s) ELSE None

\* The NormalizedEvent that normalize_claude and normalize_codex build.
event_with_cwd(agent, event_kind, cwd_str, payload) ==
    [agent |-> agent,
     event_kind |-> event_kind,
     cwd |-> cwd_str,
     project_name |-> project_name_from_cwd(cwd_str),
     raw_payload |-> payload]

\* Mutant of is_exit_plan_mode_request: only tool_name is read.
is_exit_plan_mode_request_tool_name(object) ==
    as_str(Get(object, "tool_name")) = Some(EXIT_PLAN_MODE)

is_exit_plan_mode_request(object) ==
    \/ as_str(Get(object, "tool_name")) = Some(EXIT_PLAN_MODE)
    \/ as_str(Get(object, "tool")) = Some(EXIT_PLAN_MODE)
    \/ as_str(Get(object, "query")) = Some(EXIT_PLAN_MODE)

\* The match of claude_event_kind on the hook event string.
claude_kind_of_hook(object, hook_event) ==
    IF hook_event = HOOK_STOP THEN Some(TASK_END)
    ELSE IF hook_event = HOOK_SUBAGENT_STOP THEN Some(PLAN_END)
    ELSE IF hook_event = HOOK_PERMISSION_REQUEST /\ is_exit_plan_mode_request(object)
    THEN Some(PLAN_END)
    ELSE None

claude_event_kind(object) ==
    IF as_str(Get(object, "hook_event_name")) = None THEN None
    ELSE claude_kind_of_hook(object, as_str(Get(object, "hook_event_name")).v)

\* normalize_claude / normalize_codex once the event kind is known.
event_of_kind(agent, payload, event_kind) ==
    IF event_kind = None THEN None
    ELSE Some(event_with_cwd(agent, event_kind.v, as_str(Get(payload, "cwd")), payload))

normalize_claude(payload) ==
    IF ~is_object(payload) THEN None
    ELSE event_of_kind("claude", payload, claude_event_kind(payload))

codex_event_kind(kind) ==
    IF kind = AGENT_TURN_COMPLETE THEN Some(TASK_END)
    ELSE IF kind = AGENT_PLAN_COMPLETE THEN Some(PLAN_END)
    ELSE None

normalize_codex(payload) ==
    IF ~is_object(payload) THEN None
    ELSE IF as_str(Get(payload, "type")) = None THEN None
    ELSE event_of_kind("codex", payload, codex_event_kind(as_str(Get(payload, "type")).v))

\* The keys normalize_generic tries, in the order of its or_else chain.
GENERIC_KIND_KEYS == <<"event_kind", "event-kind", "type", "kind", "event">>

\* Mutant of first_present: the first key holding a string is taken.
first_present_string(object, keys) ==
    LET holding == SelectSeq(keys, LAMBDA k : Get(object, k).t = "str")
    IN  IF holding = <<>> THEN None ELSE Get(object, Head(holding))

\* object.get(k1).or_else(|| object.get(k2))...
RECURSIVE first_present(_, _)
first_present(object, keys) ==
    IF keys = <<>> THEN None
    ELSE IF Get(object, Head(keys)) # None THEN Get(object, Head(keys))
    ELSE first_present(object, Tail(keys))

TERMINAL_MARKERS == {<<"complete">>, <<"finish">>, <<"done">>, <<"stop">>}

contains_terminal_marker(lowered) == \E marker \in TERMINAL_MARKERS : Contains(lowered, marker)

is_terminal_event(event_kind) == contains_terminal_marker(to_ascii_lowercase(event_kind))

\* event.rs 121-128: the project name of a generic event.
generic_project_name(cwd, project) ==
    IF cwd # None THEN project_name_from_cwd(cwd)
    ELSE IF project # None THEN project.v
    ELSE UNKNOWN_PROJECT

\* event.rs 120-136, the event kind being terminal.
generic_event(payload, event_kind, cwd) ==
    [agent |-> "generic",
     event_kind |-> event_kind,
     cwd |-> cwd,
     project_name |-> generic_project_name(cwd, as_str(Get(payload, "project"))),
     raw_payload |-> payload]

\* event.rs 107-136, given what the or_else chain found.
generic_of_kind(payload, event_kind) ==
    IF event_kind = None THEN None
    ELSE IF ~is_terminal_event(event_kind.v) THEN None
    ELSE Some(generic_event(payload, event_kind.v, as_str(Get(payload, "cwd"))))

normalize_generic(payload) ==
    IF ~is_object(payload) THEN None
    ELSE generic_of_kind(payload, as_str(first_present(payload, GENERIC_KIND_KEYS)))

normalize(agent, payload) ==
    CASE agent = "claude" -> normalize_claude(payload)
      [] agent = "codex" -> normalize_codex(payload)
      [] agent = "generic" -> normalize_generic(payload)

(***************************************************************************)
(* normalize: bounded universe and state machine                           *)
(***************************************************************************)
\* A payload object holds at most this many of the keys an agent is offered.
MaxKeys == 3

CwdValues ==
    {JStr(<<"/", "home", "/", "x", "/", "Projects", "/", "app">>), JStr(<<>>),
     JStr(<<"/">>), JNum(1)}

\* The keys offered to an agent, each with the values it may hold.
KeyValues(agent) ==
    CASE agent = "claude" ->
             ("hook_event_name" :> {JStr(HOOK_STOP), JStr(HOOK_SUBAGENT_STOP),
                                    JStr(HOOK_PERMISSION_REQUEST), JStr(<<"stop">>),
                                    JStr(<<"Notification">>), JNum(1)}) @@
             ("tool_name" :> {JStr(EXIT_PLAN_MODE), JStr(<<"Bash">>), JNull}) @@
             ("tool" :> {JStr(EXIT_PLAN_MODE), JNum(0)}) @@
             ("query" :> {JStr(EXIT_PLAN_MODE), JStr(<<"exitplanmode">>)}) @@
             ("type" :> {JStr(AGENT_TURN_COMPLETE)}) @@
             ("cwd" :> CwdValues)
      [] agent = "codex" ->
             ("type" :> {JStr(AGENT_TURN_COMPLETE), JStr(AGENT_PLAN_COMPLETE),
                         JStr(<<"Agent", "-", "turn", "-", "complete">>),
                         JStr(<<"agent", "-", "turn", "-", "complete", "d">>),
                         JStr(TASK_END), JNull}) @@
             ("hook_event_name" :> {JStr(HOOK_STOP)}) @@
             ("event" :> {JStr(<<"done">>)}) @@
             ("project" :> {JStr(<<"demo">>)}) @@
             ("cwd" :> CwdValues)
      [] agent = "generic" ->
             ("event_kind" :> {JStr(<<"Task", "-", "finish", "ed">>), JStr(<<"start">>),
                               JStr(<<>>), JNull}) @@
             ("event-kind" :> {JStr(<<"DONE">>), JStr(<<"progress">>)}) @@
             ("type" :> {JStr(<<"non", "stop">>), JNum(1)}) @@
             ("kind" :> {JStr(<<"in", "complete">>), JStr(<<"st", " ", "op">>)}) @@
             ("event" :> {JStr(HOOK_STOP), JStr(<<"begin">>)}) @@
             ("project" :> {JStr(<<"demo">>), JStr(<<>>), JNull}) @@
             ("cwd" :> CwdValues)

\* The objects whose keys are exactly `keys`, each holding one of its values.
RECURSIVE ObjectsOver(_, _)
ObjectsOver(values, keys) ==
    IF keys = {} THEN {EmptyMap}
    ELSE LET k == CHOOSE key \in keys : TRUE
         IN  {MapInsert(o, k, v) : o \in ObjectsOver(values, keys \ {k}), v \in values[k]}

NonObjectPayloads == {JNull, JNum(1), JStr(HOOK_STOP), JArr(<<JStr(<<"done">>)>>)}

Payloads(agent) ==
    NonObjectPayloads \cup
    {JObj(o) : o \in UNION {ObjectsOver(KeyValues(agent), keys) :
                                keys \in {s \in SUBSET DOMAIN KeyValues(agent) :
                                              Cardinality(s) <= MaxKeys}}}

EventInit ==
    /\ ev_agent \in Agents
    /\ ev_payload \in Payloads(ev_agent)
    /\ ev_result = Pending
    /\ ClaudeIdle
    /\ CodexIdle
    /\ PathIdle
    /\ RenderIdle
    /\ CliIdle

\* normalize(agent, payload)
EventNormalize ==
    /\ ev_result = Pending
    /\ ev_result' = Returned(normalize(ev_agent, ev_payload))
    /\ UNCHANGED <<ev_agent, ev_payload>>
    /\ UNCHANGED <<claude_vars, codex_vars, path_vars, render_vars, cli_vars>>

EventNext == EventNormalize

EventSpec == EventInit /\ [][EventNext]_vars

(***************************************************************************)
(* Template renderer (template.rs)                                         *)
(*                                                                         *)
(* A template is a string whose atoms are text or Handlebars markup.  The  *)
(* renderer is Handlebars::new() with strict mode off: {{name}} renders    *)
(* the field HTML-escaped, {{{name}}} renders it as it is, an unknown name *)
(* renders nothing, {{#if name}}...{{/if}} renders its body when the field *)
(* is not empty, and markup that does not parse fails the registration.    *)
(***************************************************************************)
BUILTIN_DEFAULT_TEMPLATE ==
    <<"{{agent}}", " ", "finished", " ", "a", " ", "{{event_kind}}", " ", "in", " ",
      "the", " ", "{{project}}", " ", "project">>

\* {{name}} expressions and the name each one reads.
EscapedExpressions ==
    ("{{agent}}" :> "agent") @@ ("{{event_kind}}" :> "event_kind") @@
    ("{{event_kind_raw}}" :> "event_kind_raw") @@ ("{{project}}" :> "project") @@
    ("{{cwd}}" :> "cwd") @@ ("{{branch}}" :> "branch")

\* {{{name}}} expressions.
RawExpressions == ("{{{project}}}" :> "project") @@ ("{{{event_kind}}}" :> "event_kind")

\* {{#if name}} block openers.
IfOpeners == ("{{#if cwd}}" :> "cwd") @@ ("{{#if branch}}" :> "branch")

IfCloser == "{{/if}}"

\* Markup the Handlebars grammar rejects.
MalformedMarkup == {"{{#if", "{{", "{{/each}}"}

\* The nesting depth of the blocks at the end of the template, -1 once a
\* closer has no opener or an atom does not parse.
RECURSIVE block_depth(_, _)
block_depth(template, depth) ==
    IF template = <<>> THEN depth
    ELSE IF Head(template) \in MalformedMarkup THEN -1
    ELSE IF Head(template) \in DOMAIN IfOpeners THEN block_depth(Tail(template), depth + 1)
    ELSE IF Head(template) = IfCloser
    THEN IF depth = 0 THEN -1 ELSE block_depth(Tail(template), depth - 1)
    ELSE block_depth(Tail(template), depth)

\* Handlebars::register_template_string(..).is_ok()
register_template_string(template) == block_depth(template, 0) = 0

\* handlebars::html_escape, the default escape function, on the atoms in use.
HtmlEntities ==
    ("&" :> "&amp;") @@ ("<" :> "&lt;") @@ (">" :> "&gt;") @@
    ("'" :> "&#x27;") @@ ("=" :> "&#x3D;")

html_escape(s) ==
    [i \in 1..Len(s) |-> IF s[i] \in DOMAIN HtmlEntities THEN HtmlEntities[s[i]] ELSE s[i]]

\* A field of the context; a name the context lacks gives nothing.
field(context, name) == IF name \in DOMAIN context THEN context[name] ELSE <<>>

\* What one atom of the template adds to the output outside a skipped block.
render_atom(atom, context) ==
    IF atom \in DOMAIN EscapedExpressions THEN html_escape(field(context, EscapedExpressions[atom]))
    ELSE IF atom \in DOMAIN RawExpressions THEN field(context, RawExpressions[atom])
    ELSE IF atom \in DOMAIN IfOpeners \/ atom = IfCloser THEN <<>>
    ELSE <<atom>>

\* The number of enclosing blocks being skipped once the atom is read.
skipping_after(atom, context, skipping) ==
    IF atom \in DOMAIN IfOpeners
    THEN IF skipping > 0 \/ field(context, IfOpeners[atom]) = <<>> THEN skipping + 1 ELSE 0
    ELSE IF atom = IfCloser /\ skipping > 0 THEN skipping - 1
    ELSE skipping

\* Handlebars::render of a registered template.
RECURSIVE render_atoms(_, _, _, _)
render_atoms(out, template, context, skipping) ==
    IF template = <<>> THEN out
    ELSE render_atoms(IF skipping = 0 THEN out \o render_atom(Head(template), context) ELSE out,
                      Tail(template), context,
                      skipping_after(Head(template), context, skipping))

\* context_from_event
context_from_event(event, event_kind_label) ==
    [agent |-> display_name(event.agent),
     event_kind |-> event_kind_label,
     event_kind_raw |-> event.event_kind,
     project |-> event.project_name,
     cwd |-> IF event.cwd = None THEN <<>> ELSE event.cwd.v]

\* `.filter(|rendered| !rendered.trim().is_empty())`
non_blank(rendered) == IF trim(rendered) = <<>> THEN None ELSE Some(rendered)

\* Mutant of render_template: a template that fails to register renders
\* as its own text.
render_template_unchecked(template, event, event_kind_label) ==
    non_blank(render_atoms(<<>>, SelectSeq(template, LAMBDA a : a \notin MalformedMarkup),
                           context_from_event(event, event_kind_label), 0))

render_template(template, event, event_kind_label) ==
    IF ~register_template_string(template) THEN None
    ELSE non_blank(render_atoms(<<>>, template, context_from_event(event, event_kind_label), 0))

\* agent_template
agent_template(templates, agent) == templates.agents[agent]

\* normalize_template
normalize_template(value) ==
    IF value = None THEN None
    ELSE IF trim(value.v) = <<>> THEN None
    ELSE value

\* Mutant of resolve_template: the agent's slot decides whenever it is set.
resolve_template_set_agent(templates, agent) ==
    IF agent_template(templates, agent) # None
    THEN normalize_template(agent_template(templates, agent))
    ELSE normalize_template(templates.global)

\* resolve_template
resolve_template(templates, agent) ==
    IF normalize_template(agent_template(templates, agent)) # None
    THEN normalize_template(agent_template(templates, agent))
    ELSE normalize_template(templates.global)

\* normalize_event_kind_key
normalize_event_kind_key(event_kind) == to_ascii_lowercase(trim(event_kind))

\* str::replace(from, to), one atom for another.
replace(s, from, to) == [i \in 1..Len(s) |-> IF s[i] = from THEN to ELSE s[i]]

\* split_whitespace().collect::<Vec<_>>().join(" "), word by word: `word`
\* is the word being read, `out` the words joined so far.
RECURSIVE join_words(_, _, _)
push_word(out, word) ==
    IF word = <<>> THEN out
    ELSE IF out = <<>> THEN word
    ELSE out \o <<" ">> \o word

join_words(out, word, s) ==
    IF s = <<>> THEN push_word(out, word)
    ELSE IF is_whitespace(Head(s)) THEN join_words(push_word(out, word), <<>>, Tail(s))
    ELSE join_words(out, Append(word, Head(s)), Tail(s))

or_event(collapsed) == IF collapsed = <<>> THEN <<"event">> ELSE collapsed

\* humanize_event_kind
humanize_event_kind(event_kind) ==
    or_event(join_words(<<>>, <<>>, replace(replace(event_kind, "-", " "), "_", " ")))

\* agent_event_kind_labels
agent_event_kind_labels(labels, agent) == labels.agents[agent]

\* BTreeMap::get
map_get(map, key) == IF key \in DOMAIN map THEN Some(map[key]) ELSE None

\* template.rs 62-72: the get / or_else chain.
first_label(agent_labels, global_labels, key) ==
    IF map_get(agent_labels, key) # None THEN map_get(agent_labels, key)
    ELSE IF map_get(global_labels, key) # None THEN map_get(global_labels, key)
    ELSE IF key = TASK_END THEN Some(<<"task">>)
    ELSE None

\* `.map(|label| label.trim()).filter(|label| !label.is_empty())`
usable_label(label) ==
    IF label = None THEN None
    ELSE IF trim(label.v) = <<>> THEN None
    ELSE Some(trim(label.v))

\* template.rs 76-79
label_or_humanized(resolved, event_kind) ==
    IF resolved # None THEN resolved.v ELSE humanize_event_kind(event_kind)

\* Mutant of resolve_event_kind_label: the global labels are read first.
resolve_event_kind_label_global_first(event, labels) ==
    label_or_humanized(
        usable_label(first_label(labels.global, agent_event_kind_labels(labels, event.agent),
                                 normalize_event_kind_key(event.event_kind))),
        event.event_kind)

resolve_event_kind_label(event, labels) ==
    label_or_humanized(
        usable_label(first_label(agent_event_kind_labels(labels, event.agent), labels.global,
                                 normalize_event_kind_key(event.event_kind))),
        event.event_kind)

\* The format! of template.rs 144-149.
formatted_message(event, event_kind_label) ==
    display_name(event.agent) \o <<" ", "finished", " ", "a", " ">> \o event_kind_label
        \o <<" ", "in", " ", "the", " ">> \o event.project_name \o <<" ", "project">>

\* Option::unwrap_or
unwrap_or(option, default) == IF option = None THEN default ELSE option.v

\* template.rs 142-150
default_message(event, event_kind_label) ==
    unwrap_or(render_template(BUILTIN_DEFAULT_TEMPLATE, event, event_kind_label),
              formatted_message(event, event_kind_label))

\* template.rs 152-157
message_of_template(template, event, event_kind_label) ==
    IF template = None THEN default_message(event, event_kind_label)
    ELSE unwrap_or(render_template(template.v, event, event_kind_label),
                   default_message(event, event_kind_label))

\* template.rs 141-157, the label being resolved.
message_with_label(event, templates, event_kind_label) ==
    message_of_template(resolve_template(templates, event.agent), event, event_kind_label)

render_announcement_message(event, templates, event_kind_labels) ==
    message_with_label(event, templates, resolve_event_kind_label(event, event_kind_labels))

(***************************************************************************)
(* Renderer: bounded universe and state machine                            *)
(***************************************************************************)
\* Events normalize returns.
NormalizedEvents ==
    { normalize("codex",
                JObj(("type" :> JStr(AGENT_TURN_COMPLETE)) @@
                     ("cwd" :> JStr(<<"/", "home", "/", "user", "/", "Projects", "/",
                                      "backend">>)))).v,
      normalize("claude", JObj("hook_event_name" :> JStr(HOOK_SUBAGENT_STOP))).v,
      normalize("claude",
                JObj(("hook_event_name" :> JStr(HOOK_STOP)) @@
                     ("cwd" :> JStr(<<"/", "srv", "/", "R", "&", "D">>)))).v,
      normalize("generic",
                JObj(("event_kind" :> JStr(<<"Build", "_", "_", "Complete">>)) @@
                     ("project" :> JStr(<<"Q", "&", "A">>)))).v,
      normalize("generic",
                JObj(("event" :> JStr(<<" ", "DONE", "-", "\t">>)) @@
                     ("cwd" :> JStr(<<"/", "tmp", "/", "demo", "/">>)))).v }

\* Events built through the public fields of NormalizedEvent.
DirectEvents ==
    { [agent |-> "generic", event_kind |-> <<" ", "Task", "-", "End", " ">>, cwd |-> None,
       project_name |-> <<"demo">>, raw_payload |-> JNull],
      [agent |-> "codex", event_kind |-> <<"-", "_", " ">>, cwd |-> None,
       project_name |-> UNKNOWN_PROJECT, raw_payload |-> JNull] }

RenderEvents == NormalizedEvents \cup DirectEvents

TemplateValues ==
    { None,
      Some(<<" ", "\t">>),
      Some(<<"{{#if">>),
      Some(<<"{{#if cwd}}", "in", " ", "{{cwd}}">>),
      Some(<<"{{event_kind}}">>),
      Some(<<"{{agent}}", " ", "{{event_kind}}", " ", "{{event_kind_raw}}", " ",
             "{{project}}", " ", "{{cwd}}">>),
      Some(<<" ", "{{cwd}}", "{{branch}}">>),
      Some(<<"{{#if cwd}}", "in", " ", "{{{project}}}", "{{/if}}">>) }

OtherAgentTemplates == {None, Some(<<"other", " ", "agent">>)}

\* TemplateConfig values: `mine` is the slot of the event's agent.
TemplateConfigs(agent) ==
    { [global |-> g, agents |-> [a \in Agents |-> IF a = agent THEN mine ELSE other]] :
          g \in TemplateValues, mine \in TemplateValues, other \in OtherAgentTemplates }

AgentLabelValues == {None, Some(<<" ">>), Some(<<"turn">>), Some(<<" ", "user", "'", "s", " ", "job", " ">>)}
GlobalLabelValues == {None, Some(<<>>), Some(<<"work">>)}
OtherLabels == {EmptyMap, <<"other">> :> <<"wrong">>}

\* A label map: the entry for `key` when `label` is given, and the others.
LabelMap(key, label, others) ==
    IF label = None THEN others ELSE (key :> label.v) @@ others

\* EventKindLabelsConfig values around the normalized key of an event kind.
LabelConfigs(agent, key) ==
    { [global |-> LabelMap(key, g, others),
       agents |-> [a \in Agents |-> IF a = agent THEN LabelMap(key, mine, others)
                                   ELSE LabelMap(key, Some(<<"wrong">>), others)]] :
          g \in GlobalLabelValues, mine \in AgentLabelValues, others \in OtherLabels }

RenderInit ==
    /\ rd_event \in RenderEvents
    /\ rd_templates \in TemplateConfigs(rd_event.agent)
    /\ rd_labels \in LabelConfigs(rd_event.agent, normalize_event_kind_key(rd_event.event_kind))
    /\ rd_label = Pending
    /\ rd_template = Pending
    /\ rd_message = Pending
    /\ ClaudeIdle
    /\ CodexIdle
    /\ PathIdle
    /\ EventIdle
    /\ CliIdle

\* render_announcement_message(&event, &templates, &event_kind_labels)
Render ==
    /\ rd_message = Pending
    /\ rd_label' = Returned(resolve_event_kind_label(rd_event, rd_labels))
    /\ rd_template' = Returned(resolve_template(rd_templates, rd_event.agent))
    /\ rd_message' = Returned(render_announcement_message(rd_event, rd_templates, rd_labels))
    /\ UNCHANGED <<rd_event, rd_templates, rd_labels>>
    /\ UNCHANGED <<claude_vars, codex_vars, path_vars, event_vars, cli_vars>>

RenderNext == Render

RenderSpec == RenderInit /\ [][RenderNext]_vars

(***************************************************************************)
(* Files and the commands of main.rs                                       *)
(*                                                                         *)
(* A file is missing, blank (it exists and holds only whitespace), holds   *)
(* text that does not parse, or holds the text of a document.  Loading     *)
(* gives Ok(document) or Err; a write replaces the content with the text   *)
(* of the document written.                                                *)
(***************************************************************************)
Ok(v) == [ok |-> TRUE, v |-> v]
Err == [ok |-> FALSE]

\* LocalState::default()
default_state ==
    [previous_notify |-> None,
     templates |-> [global |-> None, agents |-> [a \in Agents |-> None]],
     event_kind_labels |-> [global |-> EmptyMap, agents |-> [a \in Agents |-> EmptyMap]]]

\* Mutant of load_file: text that does not parse loads as the empty document.
load_file_lenient(file, empty) ==
    IF file.t = "doc" THEN Ok(file.d) ELSE Ok(empty)

\* The load of claude.rs 258-271, codex.rs 99-112 and state.rs 59-72:
\* `empty` is what a missing or blank file loads as.
load_file(file, empty) ==
    IF file.t = "missing" THEN Ok(empty)
    ELSE IF file.t = "blank" THEN Ok(empty)
    ELSE IF file.t = "garbage" THEN Err
    ELSE Ok(file.d)

load_settings(file) == load_file(file, JObj(EmptyMap))
load_config(file) == load_file(file, None)
state_load(file) == load_file(file, default_state)

\* What a step of an invocation leaves: the files, the files written so
\* far, the agents whose apply_setup or apply_remove returned true, the
\* LocalState in memory and whether every step so far returned Ok.
Started(files, state) ==
    [files |-> files, written |-> {}, changed |-> {}, state |-> state, ok |-> TRUE]

Failed(o) == [o EXCEPT !.ok = FALSE]

\* write_settings / write_config / state::save: the file holds the text of
\* the document.
write_file(o, name, document) ==
    [o EXCEPT !.files[name] = FileOf(document), !.written = @ \cup {name}]

\* Mutant of claude_applied: the settings are written whatever was returned.
claude_applied_always_write(o, r) ==
    IF r.changed
    THEN [write_file(o, "claude", r.settings) EXCEPT !.changed = @ \cup {"claude"}]
    ELSE write_file(o, "claude", r.settings)

\* claude.rs 22-26 and 35-39
claude_applied(o, r) ==
    IF r.changed
    THEN [write_file(o, "claude", r.settings) EXCEPT !.changed = @ \cup {"claude"}]
    ELSE o

claude_setup_loaded(o, loaded, command) ==
    IF ~loaded.ok THEN Failed(o)
    ELSE claude_applied(o, claude_apply_setup(loaded.v, command))

\* shell_quote of a path that holds no quote
shell_quote(path) == "'" \o path \o "'"

\* claude::setup
claude_setup(o, executable_path) ==
    claude_setup_loaded(o, load_settings(o.files["claude"]),
                        managed_command(shell_quote(executable_path)))

claude_remove_loaded(o, loaded) ==
    IF ~loaded.ok THEN Failed(o)
    ELSE claude_applied(o, claude_apply_remove(loaded.v))

\* claude::remove
claude_remove(o) ==
    IF o.files["claude"].t = "missing" THEN o
    ELSE claude_remove_loaded(o, load_settings(o.files["claude"]))

\* codex.rs 24-28 and 37-41; apply_setup and apply_remove work on the
\* LocalState in memory.
codex_applied(o, r) ==
    IF r.changed
    THEN [write_file(o, "codex", r.notify) EXCEPT
              !.changed = @ \cup {"codex"},
              !.state.previous_notify = r.previous_notify]
    ELSE [o EXCEPT !.state.previous_notify = r.previous_notify]

codex_setup_loaded(o, loaded, desired) ==
    IF ~loaded.ok THEN Failed(o)
    ELSE codex_applied(o, codex_apply_setup(loaded.v, o.state.previous_notify, desired))

\* codex::setup
codex_setup(o, executable_path) ==
    codex_setup_loaded(o, load_config(o.files["codex"]),
                       managed_notify_command(executable_path))

codex_remove_loaded(o, loaded) ==
    IF ~loaded.ok THEN Failed(o)
    ELSE codex_applied(o, codex_apply_remove(loaded.v, o.state.previous_notify))

\* codex::remove
codex_remove(o) ==
    IF o.files["codex"].t = "missing" THEN o
    ELSE codex_remove_loaded(o, load_config(o.files["codex"]))

\* dedup_agents
RECURSIVE dedup_onto(_, _)
dedup_onto(ordered, agents) ==
    IF agents = <<>> THEN ordered
    ELSE IF \E i \in 1..Len(ordered) : ordered[i] = Head(agents)
    THEN dedup_onto(ordered, Tail(agents))
    ELSE dedup_onto(Append(ordered, Head(agents)), Tail(agents))

dedup_agents(agents) == dedup_onto(<<>>, agents)

\* One pass of the loop of main.rs 283-313.
setup_agent(o, agent, executable_path) ==
    IF agent = "claude" THEN claude_setup(o, executable_path)
    ELSE IF agent = "codex" THEN codex_setup(o, executable_path)
    ELSE o

\* One pass of the loop of main.rs 330-352.
remove_agent(o, agent) ==
    IF agent = "claude" THEN claude_remove(o)
    ELSE IF agent = "codex" THEN codex_remove(o)
    ELSE o

\* The loops: `?` leaves the function at the first step that fails.
RECURSIVE setup_each(_, _, _)
setup_each(o, agents, executable_path) ==
    IF agents = <<>> \/ ~o.ok THEN o
    ELSE setup_each(setup_agent(o, Head(agents), executable_path), Tail(agents),
                    executable_path)

RECURSIVE remove_each(_, _)
remove_each(o, agents) ==
    IF agents = <<>> \/ ~o.ok THEN o
    ELSE remove_each(remove_agent(o, Head(agents)), Tail(agents))

\* Mutant of save_if_changed: the state is saved at the end of every
\* invocation that succeeds.
save_always(o, initial_state) ==
    IF ~o.ok THEN o ELSE write_file(o, "state", o.state)

\* main.rs 316-318 and 355-357: the state is saved when it differs from the
\* one loaded.
save_if_changed(o, initial_state) ==
    IF ~o.ok THEN o
    ELSE IF o.state # initial_state THEN write_file(o, "state", o.state)
    ELSE o

\* setup_agents, the state being loaded
setup_agents_loaded(files, loaded, agents, executable_path) ==
    IF ~loaded.ok THEN Failed(Started(files, None))
    ELSE save_if_changed(setup_each(Started(files, loaded.v), dedup_agents(agents),
                                    executable_path),
                         loaded.v)

setup_agents(files, agents, executable_path) ==
    setup_agents_loaded(files, state_load(files["state"]), agents, executable_path)

\* remove_agents, the state being loaded
remove_agents_loaded(files, loaded, agents) ==
    IF ~loaded.ok THEN Failed(Started(files, None))
    ELSE save_if_changed(remove_each(Started(files, loaded.v), dedup_agents(agents)),
                         loaded.v)

remove_agents(files, agents) ==
    remove_agents_loaded(files, state_load(files["state"]), agents)

\* template_slot / template_slot_mut: None is the global slot.
template_slot(templates, agent) ==
    IF agent = None THEN templates.global ELSE templates.agents[agent.v]

set_template_slot(state, agent, value) ==
    IF agent = None THEN [state EXCEPT !.templates.global = value]
    ELSE [state EXCEPT !.templates.agents[agent.v] = value]

\* validate_template(..).is_ok()
validate_template(template) == register_template_string(template)

\* template_set after validate_template and state::load
template_set_loaded(files, loaded, agent, value) ==
    IF ~loaded.ok THEN Failed(Started(files, None))
    ELSE IF template_slot(loaded.v.templates, agent) = Some(value)
    THEN Started(files, loaded.v)
    ELSE write_file(Started(files, set_template_slot(loaded.v, agent, Some(value))), "state",
                    set_template_slot(loaded.v, agent, Some(value)))

\* Mutant of template_set: the template is stored without being validated.
template_set_unvalidated(files, agent, value) ==
    template_set_loaded(files, state_load(files["state"]), agent, value)

template_set(files, agent, value) ==
    IF ~validate_template(value) THEN Failed(Started(files, None))
    ELSE template_set_loaded(files, state_load(files["state"]), agent, value)

\* event_kind_labels_slot / event_kind_labels_slot_mut
event_kind_labels_slot(labels, agent) ==
    IF agent = None THEN labels.global ELSE labels.agents[agent.v]

insert_label(state, agent, key, value) ==
    IF agent = None
    THEN [state EXCEPT !.event_kind_labels.global = MapInsert(@, key, value)]
    ELSE [state EXCEPT !.event_kind_labels.agents[agent.v] = MapInsert(@, key, value)]

\* normalize_event_kind_key of main.rs: Err for a key that is blank.
checked_event_kind_key(key) ==
    IF to_ascii_lowercase(trim(key)) = <<>> THEN Err ELSE Ok(to_ascii_lowercase(trim(key)))

\* event_kind_set after the two checks and state::load
event_kind_set_loaded(files, loaded, agent, normalized_key, trimmed_value) ==
    IF ~loaded.ok THEN Failed(Started(files, None))
    ELSE IF map_get(event_kind_labels_slot(loaded.v.event_kind_labels, agent), normalized_key)
                = Some(trimmed_value)
    THEN Started(files, loaded.v)
    ELSE write_file(Started(files, insert_label(loaded.v, agent, normalized_key, trimmed_value)),
                    "state", insert_label(loaded.v, agent, normalized_key, trimmed_value))

event_kind_set(files, agent, key, value) ==
    IF ~checked_event_kind_key(key).ok THEN Failed(Started(files, None))
    ELSE IF trim(value) = <<>> THEN Failed(Started(files, None))
    ELSE event_kind_set_loaded(files, state_load(files["state"]), agent,
                               checked_event_kind_key(key).v, trim(value))

\* The text of a payload: blank, text that is not JSON, or the text of a
\* JSON value.
BlankText == [t |-> "blank"]
GarbageText == [t |-> "garbage"]
JsonText(value) == [t |-> "json", v |-> value]

\* serde_json::from_str::<Value>
from_str(text) == IF text.t = "json" THEN Ok(text.v) ELSE Err

\* What ingest_event leaves: whether it returned Ok, and the message given
\* to spd-say when the command was run.
Ingested(ok, spoke) == [ok |-> ok, spoke |-> spoke]

\* speech::speak: `spd` is "missing" when spd-say is not in PATH, "fails"
\* when it exits with a failure, "ok" otherwise.
speak(event, state, spd) ==
    IF spd = "missing" THEN Ingested(FALSE, None)
    ELSE Ingested(spd = "ok",
                  Some(render_announcement_message(event, state.templates,
                                                   state.event_kind_labels)))

\* main.rs 405-417: a state that does not load is replaced by the default.
state_or_default(loaded) == IF loaded.ok THEN loaded.v ELSE default_state

\* Mutant of ingest_normalized: a state that does not load ends the command.
ingest_normalized_strict(event, loaded, spd) ==
    IF ~loaded.ok THEN Ingested(FALSE, None) ELSE speak(event, loaded.v, spd)

ingest_normalized(event, loaded, spd) == speak(event, state_or_default(loaded), spd)

\* main.rs 391-403
ingest_parsed(files, agent, parsed, spd) ==
    IF ~parsed.ok THEN Ingested(TRUE, None)
    ELSE IF normalize(agent, parsed.v) = None THEN Ingested(TRUE, None)
    ELSE ingest_normalized(normalize(agent, parsed.v).v, state_load(files["state"]), spd)

\* main.rs 384-389
ingest_text(files, agent, payload_text, spd) ==
    IF payload_text.t = "blank" THEN Ingested(TRUE, None)
    ELSE ingest_parsed(files, agent, from_str(payload_text), spd)

\* Option::or
option_or(first, second) == IF first # None THEN first ELSE second

\* ingest_event: `stdin` is None for a terminal and Some(text) otherwise.
ingest_event(files, agent, payload, trailing_payload, stdin, spd) ==
    IF option_or(payload, trailing_payload) # None
    THEN ingest_text(files, agent, option_or(payload, trailing_payload).v, spd)
    ELSE IF stdin = None THEN Ingested(FALSE, None)
    ELSE ingest_text(files, agent, stdin.v, spd)

(***************************************************************************)
(* Commands: bounded universe and state machine                            *)
(***************************************************************************)
\* std::env::current_exe() of the invocations.
CliExecutables == {"/tmp/agitiser-notify"}

CliClaudeFiles ==
    { MissingFile, BlankFile, GarbageFile,
      FileOf(JObj("hooks" :> JObj(STOP_EVENT :> JArr(<<
          Entry(STAR_MATCHER,
                <<ForeignHook,
                  CommandHook(managed_command("'/opt/old/agitiser-notify'"))>>)>>)))) }

CliCodexFiles ==
    { MissingFile, BlankFile, GarbageFile,
      FileOf(set_notify(<<"notify-send", "Codex">>)),
      FileOf(TStr("notify-send")),
      FileOf(set_notify(managed_notify_command("/opt/old/agitiser-notify"))) }

CliStateFiles ==
    { MissingFile, BlankFile, GarbageFile,
      FileOf([default_state EXCEPT !.previous_notify = Some(<<"say", "done">>)]),
      FileOf([default_state EXCEPT
                  !.templates.agents["codex"] = Some(<<"{{agent}}", " ", "is", " ", "done">>),
                  !.event_kind_labels.global = <<"task", "-", "end">> :> <<"job">>]) }

\* --agents lists.
AgentLists ==
    { <<"claude", "codex">>, <<"codex", "claude">>, <<"codex">>, <<"claude">>,
      <<"codex", "opencode", "codex">> }

CliTemplateValues == { <<"{{project}}", ":", " ", "{{event_kind}}">>, <<"{{#if">> }

CliKeys == { <<" ", "Task", "-", "End">>, <<" ", "\t">> }
CliLabels == { <<" ", "work", " ">>, <<" ">> }

\* The slot `config template set` and `config event-kind set` work on: None
\* is the global one.
TemplateSlots == { Some("codex") }
LabelSlots == { None }

\* Payload texts.
AcceptedPayload ==
    JObj(("type" :> JStr(AGENT_TURN_COMPLETE)) @@
         ("cwd" :> JStr(<<"/", "srv", "/", "demo">>)))
RejectedPayload == JObj("type" :> JStr(<<"agent", "-", "turn", "-", "started">>))

PayloadTexts ==
    { BlankText, GarbageText, JsonText(RejectedPayload), JsonText(JArr(<<>>)),
      JsonText(AcceptedPayload) }

\* --payload, the trailing argument and stdin of an ingest.
PayloadSources ==
    { [payload |-> Some(text), trailing_payload |-> None, stdin |-> None] :
          text \in PayloadTexts }
    \cup { [payload |-> None, trailing_payload |-> Some(JsonText(AcceptedPayload)),
            stdin |-> None],
           [payload |-> Some(BlankText), trailing_payload |-> Some(JsonText(AcceptedPayload)),
            stdin |-> None],
           [payload |-> None, trailing_payload |-> None, stdin |-> None],
           [payload |-> None, trailing_payload |-> None, stdin |-> Some(BlankText)],
           [payload |-> None, trailing_payload |-> None,
            stdin |-> Some(JsonText(AcceptedPayload))] }

\* An ingest: where its payload comes from and what spd-say does.
Ingests ==
    { [source |-> source, spd |-> "ok"] : source \in PayloadSources }
    \cup { [source |-> [payload |-> Some(JsonText(AcceptedPayload)),
                         trailing_payload |-> None, stdin |-> None],
            spd |-> spd] : spd \in {"missing", "fails"} }

CliInit ==
    /\ \E claude \in CliClaudeFiles, codex \in CliCodexFiles, state \in CliStateFiles :
           fs = ("claude" :> claude) @@ ("codex" :> codex) @@ ("state" :> state)
    /\ cli = NoRun(fs)
    /\ RaceIdle
    /\ ClaudeIdle
    /\ CodexIdle
    /\ PathIdle
    /\ EventIdle
    /\ RenderIdle

\* An invocation that works on the files has ended.
Ran(cmd, o) ==
    /\ fs' = o.files
    /\ cli' = [cmd |-> cmd, before |-> fs, written |-> o.written, changed |-> o.changed,
               state |-> o.state, ok |-> o.ok, spoke |-> None,
               repeat |-> (cmd = cli.cmd /\ cli.ok)]
    /\ UNCHANGED <<claude_vars, codex_vars, path_vars, event_vars, render_vars, race_vars>>

\* agitiser-notify setup --agents ...
CliSetup ==
    \E agents \in AgentLists, exe \in CliExecutables :
        Ran([c |-> "setup", agents |-> agents, exe |-> exe], setup_agents(fs, agents, exe))

\* agitiser-notify remove --agents ...
CliRemove ==
    \E agents \in AgentLists :
        Ran([c |-> "remove", agents |-> agents], remove_agents(fs, agents))

\* agitiser-notify config template set
CliTemplateSet ==
    \E agent \in TemplateSlots, value \in CliTemplateValues :
        Ran([c |-> "template_set", agent |-> agent, value |-> value],
            template_set(fs, agent, value))

\* agitiser-notify config event-kind set
CliEventKindSet ==
    \E agent \in LabelSlots, key \in CliKeys, value \in CliLabels :
        Ran([c |-> "event_kind_set", agent |-> agent, key |-> key, value |-> value],
            event_kind_set(fs, agent, key, value))

\* The ingest has ended.
RanIngest(cmd, r) ==
    /\ cli' = [cmd |-> cmd, before |-> fs, written |-> {}, changed |-> {}, state |-> None,
               ok |-> r.ok, spoke |-> r.spoke, repeat |-> (cmd = cli.cmd /\ cli.ok)]
    /\ UNCHANGED fs
    /\ UNCHANGED <<claude_vars, codex_vars, path_vars, event_vars, render_vars, race_vars>>

\* agitiser-notify ingest --agent codex ...
CliIngest ==
    \E i \in Ingests :
        RanIngest([c |-> "ingest", agent |-> "codex", source |-> i.source, spd |-> i.spd],
                  ingest_event(fs, "codex", i.source.payload, i.source.trailing_payload,
                               i.source.stdin, i.spd))

CliNext == CliSetup \/ CliRemove \/ CliTemplateSet \/ CliEventKindSet \/ CliIngest

CliSpec == CliInit /\ [][CliNext]_vars

(***************************************************************************)
(* Two invocations at once.  Nothing in the code locks a file, so the      *)
(* steps of two processes interleave at every file operation.  A file      *)
(* holds a text, a sequence of pieces.  fs::write is File::create, which   *)
(* opens the file and truncates it, followed by write_all, which writes    *)
(* the text from offset 0 of the process's own descriptor: what lay beyond *)
(* the end of the text written stays.                                      *)
(***************************************************************************)
TextFile(text) == [t |-> "text", text |-> text]

\* doc.to_string() of a config whose only key is `notify`
config_to_string(item) ==
    IF item = None THEN <<>>
    ELSE <<"notify = [">> \o [i \in 1..Len(item.a) |-> item.a[i].s] \o <<"]">>

\* toml::to_string_pretty of a LocalState without templates and labels
state_to_string(state) ==
    <<"[codex]">>
    \o (IF state.previous_notify = None THEN <<>>
        ELSE <<"previous_notify = [">> \o state.previous_notify.v \o <<"]">>)
    \o <<"[templates.agents]", "[event_kind_labels.agents]">>

StructuralPieces ==
    {"notify = [", "previous_notify = [", "]", "[codex]", "[templates.agents]",
     "[event_kind_labels.agents]"}

\* The text is one array of strings under the key.
is_array_text(text, key) ==
    /\ Len(text) >= 2
    /\ text[1] = key
    /\ text[Len(text)] = "]"
    /\ \A i \in 2..(Len(text) - 1) : text[i] \notin StructuralPieces

array_of_text(text) == SubSeq(text, 2, Len(text) - 1)

\* raw.parse::<DocumentMut>() behind the blank test of load_config
config_from_text(text) ==
    IF text = <<>> THEN Ok(None)
    ELSE IF is_array_text(text, "notify = [") THEN Ok(set_notify(array_of_text(text)))
    ELSE Err

codex_table_from_text(table) ==
    IF table = <<>> THEN Ok(default_state)
    ELSE IF is_array_text(table, "previous_notify = [")
    THEN Ok([default_state EXCEPT !.previous_notify = Some(array_of_text(table))])
    ELSE Err

\* toml::from_str behind the blank test of state::load
state_from_text(text) ==
    IF text = <<>> THEN Ok(default_state)
    ELSE IF /\ Len(text) >= 3
            /\ text[1] = "[codex]"
            /\ text[Len(text) - 1] = "[templates.agents]"
            /\ text[Len(text)] = "[event_kind_labels.agents]"
    THEN codex_table_from_text(SubSeq(text, 2, Len(text) - 2))
    ELSE Err

\* A load: the empty document when the file is missing.
load_text(file, empty, parsed) ==
    IF file.t = "missing" THEN Ok(empty) ELSE parsed

\* write_all from offset 0 onto what the file holds
write_all(held, text) == text \o SubSeq(held, Len(text) + 1, Len(held))

\* An invocation of setup or remove for the agent codex, before its first
\* step: where it stands, the LocalState loaded and the one in memory, the
\* document it is about to write, what it read and what it wrote.
Invocation(cmd) ==
    [cmd |-> cmd, pc |-> "load_state", initial |-> None, state |-> None, doc |-> None,
     ok |-> TRUE,
     read |-> [codex |-> None, state |-> None],
     wrote |-> [codex |-> None, state |-> None]]

\* main.rs 315-317 and 354-356
after_codex(p) ==
    IF p.state # p.initial THEN [p EXCEPT !.pc = "create_state"]
    ELSE [p EXCEPT !.pc = "done"]

failed(p) == [p EXCEPT !.pc = "done", !.ok = FALSE]

\* main.rs 280-281 and 328-329
state_loaded(p, loaded) ==
    IF ~loaded.ok THEN failed(p)
    ELSE [p EXCEPT !.pc = "codex", !.initial = loaded.v, !.state = loaded.v]

\* codex.rs 24-28 and 37-41
codex_changed_or_not(p, r) ==
    IF r.changed
    THEN [p EXCEPT !.state.previous_notify = r.previous_notify, !.doc = r.notify,
                   !.pc = "create_codex"]
    ELSE after_codex([p EXCEPT !.state.previous_notify = r.previous_notify])

codex_loaded(p, loaded, executable_path) ==
    IF ~loaded.ok THEN failed(p)
    ELSE codex_changed_or_not(p,
             IF p.cmd = "setup"
             THEN codex_apply_setup(loaded.v, p.state.previous_notify,
                                    managed_notify_command(executable_path))
             ELSE codex_apply_remove(loaded.v, p.state.previous_notify))

\* codex::setup and codex::remove up to the write
codex_step(file, p, executable_path) ==
    IF p.cmd = "remove" /\ file.t = "missing" THEN after_codex(p)
    ELSE codex_loaded([p EXCEPT !.read.codex = Some(file)],
                      load_text(file, None, config_from_text(file.text)),
                      executable_path)

\* One step of an invocation on the files.
step(files, p, executable_path) ==
    CASE p.pc = "load_state" ->
             [files |-> files,
              p |-> state_loaded([p EXCEPT !.read.state = Some(files.state)],
                                 load_text(files.state, default_state,
                                           state_from_text(files.state.text)))]
      [] p.pc = "codex" ->
             [files |-> files, p |-> codex_step(files.codex, p, executable_path)]
      [] p.pc = "create_codex" ->
             [files |-> [files EXCEPT !.codex = TextFile(<<>>)],
              p |-> [p EXCEPT !.pc = "write_codex"]]
      [] p.pc = "write_codex" ->
             [files |-> [files EXCEPT
                             !.codex = TextFile(write_all(@.text, config_to_string(p.doc)))],
              p |-> after_codex([p EXCEPT !.wrote.codex = Some(config_to_string(p.doc))])]
      [] p.pc = "create_state" ->
             [files |-> [files EXCEPT !.state = TextFile(<<>>)],
              p |-> [p EXCEPT !.pc = "write_state"]]
      [] p.pc = "write_state" ->
             [files |-> [files EXCEPT
                             !.state = TextFile(write_all(@.text, state_to_string(p.state)))],
              p |-> [p EXCEPT !.pc = "done",
                              !.wrote.state = Some(state_to_string(p.state))]]

\* The files an invocation leaves when nothing else runs.
RECURSIVE alone(_, _, _)
alone(files, p, executable_path) ==
    IF p.pc = "done" THEN files
    ELSE alone(step(files, p, executable_path).files, step(files, p, executable_path).p,
               executable_path)

RaceExecutable == "/tmp/agitiser-notify"

Invocations == {1, 2}

RaceCodexFiles ==
    { MissingFile,
      TextFile(config_to_string(set_notify(<<"notify-send", "Codex">>))),
      TextFile(config_to_string(set_notify(managed_notify_command("/opt/old/agitiser-notify")))),
      TextFile(config_to_string(set_notify(managed_notify_command(RaceExecutable)))) }

RaceStateFiles ==
    { MissingFile,
      TextFile(state_to_string(default_state)),
      TextFile(state_to_string([default_state EXCEPT
                                    !.previous_notify = Some(<<"say", "done">>)])) }

\* The files the two invocations leave in each of the two serial orders.
SerialOutcomes(files, first, second) ==
    { alone(alone(files, Invocation(first), RaceExecutable), Invocation(second),
            RaceExecutable),
      alone(alone(files, Invocation(second), RaceExecutable), Invocation(first),
            RaceExecutable) }

RaceInit ==
    /\ \E codex \in RaceCodexFiles, state \in RaceStateFiles :
           rfs = [codex |-> codex, state |-> state]
    /\ \E first \in {"setup", "remove"}, second \in {"setup", "remove"} :
           race = [start |-> rfs,
                   serial |-> SerialOutcomes(rfs, first, second),
                   p |-> (1 :> Invocation(first)) @@ (2 :> Invocation(second))]
    /\ fs = [name \in FileNames |-> MissingFile]
    /\ cli = NoRun(fs)
    /\ ClaudeIdle
    /\ CodexIdle
    /\ PathIdle
    /\ EventIdle
    /\ RenderIdle

\* Invocation i takes its next step.
Stepped(i, s) ==
    /\ rfs' = s.files
    /\ race' = [race EXCEPT !.p[i] = s.p]
    /\ UNCHANGED <<claude_vars, codex_vars, path_vars, event_vars, render_vars, fs, cli>>

\* state::load
RaceLoadState ==
    \E i \in Invocations :
        /\ race.p[i].pc = "load_state"
        /\ Stepped(i, step(rfs, race.p[i], RaceExecutable))

\* codex::setup or codex::remove: the load and apply_setup or apply_remove
RaceCodex ==
    \E i \in Invocations :
        /\ race.p[i].pc = "codex"
        /\ Stepped(i, step(rfs, race.p[i], RaceExecutable))

\* File::create of fs::write
RaceCreate ==
    \E i \in Invocations :
        /\ race.p[i].pc \in {"create_codex", "create_state"}
        /\ Stepped(i, step(rfs, race.p[i], RaceExecutable))

\* write_all of fs::write
RaceWrite ==
    \E i \in Invocations :
        /\ race.p[i].pc \in {"write_codex", "write_state"}
        /\ Stepped(i, step(rfs, race.p[i], RaceExecutable))

RaceNext == RaceLoadState \/ RaceCodex \/ RaceCreate \/ RaceWrite

RaceSpec == RaceInit /\ [][RaceNext]_vars

(***************************************************************************)
(* Claude: vocabulary of the properties                                    *)
(***************************************************************************)
EmptyDoc == JObj(EmptyMap)

\* The entries of hooks.<event>, <<>> when the path does not lead to an array.
EventEntries(doc, event) ==
    LET v == Get(Get(doc, "hooks"), event) IN IF v.t = "arr" THEN v.a ELSE <<>>

\* The hooks of an entry, <<>> when the entry has no `hooks` array.
EntryHooks(entry) ==
    LET v == Get(entry, "hooks") IN IF v.t = "arr" THEN v.a ELSE <<>>

\* The managed-command predicate on a hook object.
IsManagedHook(hook) ==
    LET c == Get(hook, "command")
    IN  /\ c.t = "str"
        /\ Contains(c.s, <<"ingest", "--agent", "claude">>)
        /\ Contains(c.s, <<"--source", "claude-hook">>)

IsForeignHook(hook) == ~IsManagedHook(hook)

\* Positions <<entry, hook>> of the managed commands of an event array.
ManagedPositions(doc, event) ==
    LET entries == EventEntries(doc, event)
    IN  {p \in UNION {{<<i, j>> : j \in 1..Len(EntryHooks(entries[i]))} : i \in 1..Len(entries)} :
            IsManagedHook(EntryHooks(entries[p[1]])[p[2]])}

HoldsManaged(doc) == \E event \in ManagedEventSet : ManagedPositions(doc, event) # {}

\* The document apply_setup is expected to make of {}.
FreshSetup(command) ==
    JObj("hooks" :> JObj([event \in ManagedEventSet |->
        JArr(<<JObj(("matcher" :> JStr(EventMatcher(event))) @@
                    ("hooks" :> JArr(<<JObj(("type" :> JStr(<<"command">>)) @@
                                            ("command" :> JStr(command)))>>)))>>)]))

SetupTwice == claude_op = "setup" /\ claude_prev = <<"setup", claude_cmd>>

\* C1: apply_setup on {} returns true, and a second apply_setup with the
\* same command right after a first one returns false and leaves the
\* document as the first call produced it.
C1_SetupIdempotent ==
    /\ (claude_op = "setup" /\ claude_before = EmptyDoc) => claude_changed
    /\ SetupTwice => (~claude_changed /\ settings = claude_before)

\* C1 witness: a second setup with the same command, on a document that
\* keeps a foreign hook beside the managed one.
C1_Witness ==
    /\ SetupTwice
    /\ \E i \in 1..Len(EventEntries(claude_before, STOP_EVENT)) :
           \E j \in 1..Len(EntryHooks(EventEntries(claude_before, STOP_EVENT)[i])) :
               IsForeignHook(EntryHooks(EventEntries(claude_before, STOP_EVENT)[i])[j])

\* C2: after apply_setup(doc, cmd) each managed event array holds exactly
\* one managed command, it equals cmd, and its entry's matcher is the
\* event's matcher ("*", "*", "ExitPlanMode").
C2_ExactlyOneManaged ==
    claude_op = "setup" =>
        \A event \in ManagedEventSet :
            LET ps == ManagedPositions(settings, event)
                entries == EventEntries(settings, event)
            IN  /\ Cardinality(ps) = 1
                /\ \A p \in ps :
                       /\ Get(EntryHooks(entries[p[1]])[p[2]], "command") = JStr(claude_cmd)
                       /\ Get(entries[p[1]], "matcher") = JStr(EventMatcher(event))

\* C2 witness: the setup ran on an array that held the command twice, or
\* held it under another matcher, or held a stale managed command.
C2_Witness ==
    /\ claude_op = "setup"
    /\ \E event \in ManagedEventSet :
           LET ps == ManagedPositions(claude_before, event)
               entries == EventEntries(claude_before, event)
           IN  /\ Cardinality(ps) >= 2
               /\ \E p \in ps :
                      /\ Get(EntryHooks(entries[p[1]])[p[2]], "command") = JStr(claude_cmd)
                      /\ Get(entries[p[1]], "matcher") # JStr(EventMatcher(event))
               /\ \E p \in ps :
                      Get(EntryHooks(entries[p[1]])[p[2]], "command") # JStr(claude_cmd)

\* C3: setup then remove on {} gives back {}: no `hooks` key is left, and
\* both calls report changed = true.
C3_SetupRemoveRoundTrip ==
    /\ (claude_op = "setup" /\ claude_before = EmptyDoc) =>
           (claude_changed /\ settings = FreshSetup(claude_cmd))
    /\ (claude_op = "remove" /\ claude_prev[1] = "setup"
            /\ claude_before = FreshSetup(claude_prev[2])) =>
           (claude_changed /\ settings = EmptyDoc)

\* C3 witness: the remove that follows a setup of {}.
C3_Witness ==
    /\ claude_op = "remove"
    /\ claude_prev[1] = "setup"
    /\ claude_before = FreshSetup(claude_prev[2])

\* For each entry with a `hooks` array that holds a foreign hook, in order,
\* the sequence of its foreign hooks.
ForeignProfile(doc, event) ==
    LET entries == EventEntries(doc, event)
        foreign == [i \in 1..Len(entries) |-> SelectSeq(EntryHooks(entries[i]), IsForeignHook)]
    IN  SelectSeq(foreign, LAMBDA hs : hs # <<>>)

\* C4: apply_setup and apply_remove keep every foreign command, unaltered
\* and in order, in each managed event array; what apply_remove takes out
\* of an entry's hooks are managed commands only.
C4_ForeignCommandsKept ==
    claude_op \in {"setup", "remove"} =>
        \A event \in ManagedEventSet :
            ForeignProfile(settings, event) = ForeignProfile(claude_before, event)

\* C4 witness: a remove on an entry that held a managed command between
\* foreign ones.
C4_Witness ==
    /\ claude_op = "remove"
    /\ claude_changed
    /\ \E event \in ManagedEventSet :
           /\ ManagedPositions(claude_before, event) # {}
           /\ \E i \in 1..Len(ForeignProfile(claude_before, event)) :
                  Len(ForeignProfile(claude_before, event)[i]) >= 2

RECURSIVE IsSubseq(_, _)
IsSubseq(a, b) ==
    IF a = <<>> THEN TRUE
    ELSE IF b = <<>> THEN FALSE
    ELSE IF Head(a) = Head(b) THEN IsSubseq(Tail(a), Tail(b))
    ELSE IsSubseq(a, Tail(b))

\* Root object, `hooks` object, the three managed event values arrays.
WellShaped(doc) ==
    /\ doc.t = "obj"
    /\ Get(doc, "hooks").t = "obj"
    /\ \A event \in ManagedEventSet : Get(Get(doc, "hooks"), event).t = "arr"

EntryHoldsManaged(entry) ==
    \E j \in 1..Len(EntryHooks(entry)) : IsManagedHook(EntryHooks(entry)[j])

HasEmptyHooks(entry) == Get(entry, "hooks") = JArr(<<>>)

\* The members of an object other than the keys in `except`.
Others(v, except) ==
    IF v.t = "obj" THEN [k \in (DOMAIN v.o) \ except |-> v.o[k]] ELSE EmptyMap

UnrelatedKeysKept ==
    /\ Others(Get(settings, "hooks"), ManagedEventSet)
           = Others(Get(claude_before, "hooks"), ManagedEventSet)
    /\ Others(settings, {"hooks"}) = Others(claude_before, {"hooks"})

\* C5 as claimed: on a well-shaped document, every entry without a managed
\* command, every unmanaged event key and every other top-level key is
\* the same after apply_setup / apply_remove as before.
C5_Original ==
    (claude_op \in {"setup", "remove"} /\ WellShaped(claude_before)) =>
        /\ \A event \in ManagedEventSet :
               IsSubseq(SelectSeq(EventEntries(claude_before, event),
                                  LAMBDA e : ~EntryHoldsManaged(e)),
                        EventEntries(settings, event))
        /\ UnrelatedKeysKept

\* C5 as amended: the same, for the entries without a managed command
\* whose `hooks` is not an empty array (those are pruned by both calls).
C5_UnrelatedEntriesKept ==
    (claude_op \in {"setup", "remove"} /\ WellShaped(claude_before)) =>
        /\ \A event \in ManagedEventSet :
               IsSubseq(SelectSeq(EventEntries(claude_before, event),
                                  LAMBDA e : ~EntryHoldsManaged(e) /\ ~HasEmptyHooks(e)),
                        EventEntries(settings, event))
        /\ UnrelatedKeysKept

\* C5 witness: a call that changed a well-shaped document holding a
\* top-level key, an unmanaged event key and, in one event array, both an
\* entry with a managed command and an entry with only foreign content.
C5_Witness ==
    /\ claude_op \in {"setup", "remove"}
    /\ claude_changed
    /\ WellShaped(claude_before)
    /\ DOMAIN Others(claude_before, {"hooks"}) # {}
    /\ DOMAIN Others(Get(claude_before, "hooks"), ManagedEventSet) # {}
    /\ \E event \in ManagedEventSet :
           LET entries == EventEntries(claude_before, event)
           IN  /\ \E i \in 1..Len(entries) : EntryHoldsManaged(entries[i])
               /\ \E i \in 1..Len(entries) :
                      ~EntryHoldsManaged(entries[i]) /\ ~HasEmptyHooks(entries[i])

\* C6: is_configured is true iff some managed event array holds an entry
\* whose `hooks` array contains a managed command; it is true right after
\* apply_setup and false right after apply_remove.
C6_IsConfigured ==
    /\ has_managed_hook(settings) <=> HoldsManaged(settings)
    /\ claude_op = "setup" => has_managed_hook(settings)
    /\ claude_op = "remove" => ~has_managed_hook(settings)

\* C6 witness: a remove of a document whose managed command sat in a later
\* entry of its array.
C6_Witness ==
    /\ claude_op = "remove"
    /\ \E event \in ManagedEventSet : \E p \in ManagedPositions(claude_before, event) : p[1] >= 2

EmptyStopNoManaged(doc) ==
    /\ ~HoldsManaged(doc)
    /\ Get(Get(doc, "hooks"), STOP_EVENT) = JArr(<<>>)

EmptyStopPruned ==
    /\ Get(Get(settings, "hooks"), STOP_EVENT) = None
    /\ Get(settings, "hooks") # JObj(EmptyMap)
    /\ DOMAIN Get(claude_before, "hooks").o = {STOP_EVENT} => Get(settings, "hooks") = None
    /\ Others(Get(settings, "hooks"), ManagedEventSet)
           = Others(Get(claude_before, "hooks"), ManagedEventSet)

NoEmptyEntries(doc) ==
    \A event \in ManagedEventSet :
        \A i \in 1..Len(EventEntries(doc, event)) : ~HasEmptyHooks(EventEntries(doc, event)[i])

\* C9: after apply_remove on a document whose `hooks` is an object, no
\* entry of a managed event array has an empty `hooks` array, no managed
\* event maps to [], and `hooks` is not {}; after apply_setup no entry of
\* a managed event array has an empty `hooks` array.
C9_CascadePruning ==
    /\ (claude_op = "remove" /\ Get(claude_before, "hooks").t = "obj") =>
           /\ NoEmptyEntries(settings)
           /\ \A event \in ManagedEventSet : Get(Get(settings, "hooks"), event) # JArr(<<>>)
           /\ Get(settings, "hooks") # JObj(EmptyMap)
    /\ claude_op = "setup" => NoEmptyEntries(settings)

\* C9 witness: a remove that emptied an entry, then its event array, then
\* `hooks`, next to a top-level key that stays.
C9_Witness ==
    /\ claude_op = "remove"
    /\ HoldsManaged(claude_before)
    /\ Get(claude_before, "hooks").t = "obj"
    /\ Get(settings, "hooks") = None

(***************************************************************************)
(* Codex: properties                                                       *)
(***************************************************************************)
\* `notify` is the array of exactly these strings.
NotifyIs(item, strings) ==
    /\ item.t = "arr"
    /\ Len(item.a) = Len(strings)
    /\ \A i \in 1..Len(strings) : item.a[i] = [t |-> "str", s |-> strings[i]]

\* C10: apply_setup returns false iff `notify` already equals the desired
\* value, and then leaves document and LocalState alone; otherwise it
\* returns true and `notify` equals the desired value afterwards.
C10_CodexSetup ==
    codex_op = "setup" =>
        /\ ~codex_changed <=> NotifyIs(codex_before[1], codex_desired)
        /\ ~codex_changed => (doc_notify = codex_before[1] /\ previous_notify = codex_before[2])
        /\ codex_changed => NotifyIs(doc_notify, codex_desired)

\* C10, second case reached: a setup over a managed `notify` with another
\* executable.
C10_WitnessManaged ==
    /\ codex_op = "setup"
    /\ codex_changed
    /\ \E e \in ExePaths :
           /\ NotifyIs(codex_before[1], <<e, "ingest", "--agent", "codex", "--source",
                                           "codex-notify">>)
           /\ codex_desired[1] # e

\* C10 witness: the no-op, a setup over the desired value while
\* previous_notify holds a value.
C10_Witness ==
    /\ codex_op = "setup"
    /\ ~codex_changed
    /\ codex_before[2] # None

\* `notify` is an array of strings (the shape config.toml gives the key).
IsStringArray(item) ==
    /\ item.t = "arr"
    /\ \A i \in 1..Len(item.a) : item.a[i].t = "str"

\* The strings of a string array.
StringsOf(item) == [i \in 1..Len(item.a) |-> item.a[i].s]

\* `notify` is managed: a string array with the five tokens among its items.
ManagedNotify(item) ==
    /\ IsStringArray(item)
    /\ \A needle \in {"ingest", "--agent", "codex", "--source", "codex-notify"} :
           \E i \in 1..Len(item.a) : item.a[i] = [t |-> "str", s |-> needle]

\* `notify` is a foreign value: a string array that is not managed.
ForeignNotify(item) == IsStringArray(item) /\ ~ManagedNotify(item)

\* C11: apply_setup writes previous_notify exactly when the existing
\* `notify` is foreign and the slot is empty, and then stores that value; a
\* filled slot survives every setup, and a setup over an absent or managed
\* `notify` leaves the slot as it was.
C11_PreviousNotifyCapture ==
    codex_op = "setup" =>
        /\ (ForeignNotify(codex_before[1]) /\ codex_before[2] = None)
               => previous_notify = [t |-> "some", v |-> StringsOf(codex_before[1])]
        /\ ~(ForeignNotify(codex_before[1]) /\ codex_before[2] = None)
               => previous_notify = codex_before[2]
        /\ codex_before[2] # None => previous_notify = codex_before[2]
        /\ (codex_before[1] = None \/ ManagedNotify(codex_before[1]))
               => previous_notify = codex_before[2]
        /\ (codex_run.setups > 1 /\ codex_run.previous_notify = None
            /\ ForeignNotify(codex_run.notify))
               => previous_notify = [t |-> "some", v |-> StringsOf(codex_run.notify)]

\* C11 witness: a second setup in a row, with another executable, after the
\* first captured a foreign `notify`.
C11_Witness ==
    /\ codex_op = "setup"
    /\ codex_run.setups > 1
    /\ codex_run.previous_notify = None
    /\ ForeignNotify(codex_run.notify)
    /\ codex_changed
    /\ previous_notify = [t |-> "some", v |-> StringsOf(codex_run.notify)]

\* C12: apply_remove on an absent or not managed `notify` returns false and
\* leaves the document and previous_notify as they were.
C12_RemoveNoOp ==
    (codex_op = "remove" /\ ~ManagedNotify(codex_before[1])) =>
        /\ ~codex_changed
        /\ doc_notify = codex_before[1]
        /\ previous_notify = codex_before[2]

\* C12 witness: a remove over a foreign `notify` while previous_notify
\* holds a value.
C12_Witness ==
    /\ codex_op = "remove"
    /\ ForeignNotify(codex_before[1])
    /\ codex_before[2] # None
    /\ ~codex_changed

\* C13: apply_remove on a managed `notify` returns true; a held
\* previous_notify becomes the content of `notify` and the slot is emptied,
\* otherwise the `notify` key is deleted.
C13_RemoveManaged ==
    (codex_op = "remove" /\ ManagedNotify(codex_before[1])) =>
        /\ codex_changed
        /\ previous_notify = None
        /\ IF codex_before[2] # None
           THEN NotifyIs(doc_notify, codex_before[2].v)
           ELSE doc_notify = None

\* C13 witness: a remove that restored a held value.
C13_Witness ==
    /\ codex_op = "remove"
    /\ ManagedNotify(codex_before[1])
    /\ codex_before[2] # None
    /\ codex_changed
    /\ doc_notify # None

\* C13, the other branch reached: a remove that deleted the key.
C13_WitnessDeleted ==
    /\ codex_op = "remove"
    /\ ManagedNotify(codex_before[1])
    /\ codex_before[2] = None
    /\ doc_notify = None

\* A run of setups that started with an empty previous_notify and a
\* `notify` that was absent or a foreign string array.
CleanRun ==
    /\ codex_run.setups > 0
    /\ codex_run.previous_notify = None
    /\ (codex_run.notify = None \/ ForeignNotify(codex_run.notify))

RECURSIVE Segments(_)
Segments(path) ==
    IF \A i \in 1..Len(path) : path[i] # "/" THEN <<path>>
    ELSE LET k == CHOOSE i \in 1..Len(path) :
                      path[i] = "/" /\ \A j \in 1..(i - 1) : path[j] # "/"
         IN  <<SubSeq(path, 1, k - 1)>> \o Segments(SubSeq(path, k + 1, Len(path)))

\* The path without the slashes at its end.
StripTrailingSlashes(path) ==
    LET keep == {i \in 1..Len(path) : path[i] # "/"}
    IN  IF keep = {} THEN <<>>
        ELSE SubSeq(path, 1, CHOOSE i \in keep : \A j \in keep : j <= i)

\* The string without the whitespace at its ends.
Trimmed(s) ==
    LET keep == {i \in 1..Len(s) : s[i] \notin {" ", "\t"}}
    IN  IF keep = {} THEN <<>>
        ELSE SubSeq(s, CHOOSE i \in keep : \A j \in keep : i <= j,
                       CHOOSE i \in keep : \A j \in keep : j <= i)

Blank(s) == \A i \in 1..Len(s) : s[i] \in {" ", "\t"}

IsDot(segment) == segment = <<".">>
IsDotDot(segment) == segment = <<".", ".">>

\* The segments that name something: neither empty nor ".".
NamingSegments(path) ==
    SelectSeq(Segments(path), LAMBDA g : g # <<>> /\ ~IsDot(g))

\* A single segment: a non-empty string without "/".
BareSegment(s) == s # <<>> /\ \A i \in 1..Len(s) : s[i] # "/"

PathCalled == pn_name # Pending

\* C18 as stated: "unknown project" for an absent or blank input, "/" for
\* "/", otherwise the final segment of the input once its trailing slashes
\* are stripped; never the empty string; a bare segment that was returned
\* is returned unchanged when given back.
C18_Original ==
    PathCalled =>
        /\ pn_name.v # <<>>
        /\ pn_cwd = None => pn_name.v = UNKNOWN_PROJECT
        /\ pn_cwd # None =>
               IF Blank(pn_cwd.v) THEN pn_name.v = UNKNOWN_PROJECT
               ELSE IF pn_cwd.v = <<"/">> THEN pn_name.v = <<"/">>
               ELSE LET segs == Segments(StripTrailingSlashes(pn_cwd.v))
                    IN  pn_name.v = segs[Len(segs)]
        /\ (pn_fed /\ BareSegment(pn_cwd.v)) => pn_name.v = pn_cwd.v

\* C18, amended: the input is trimmed of whitespace first; an absent or
\* blank input gives "unknown project"; a trimmed input made of slashes
\* only is returned whole ("/" gives "/"); otherwise, with the trailing
\* slashes stripped, the result is the last segment that is neither empty
\* nor ".", unless there is none or it is "..", in which case the stripped
\* string is returned whole.  The result is never empty, "/a/b/c/" gives
\* "c", and a returned bare segment without whitespace at its ends is
\* returned unchanged when given back.
C18_ProjectNameFromCwd ==
    PathCalled =>
        /\ pn_name.v # <<>>
        /\ pn_cwd = None => pn_name.v = UNKNOWN_PROJECT
        /\ pn_cwd # None =>
               LET whole == Trimmed(pn_cwd.v)
                   c == StripTrailingSlashes(whole)
                   named == NamingSegments(c)
               IN  IF whole = <<>> THEN pn_name.v = UNKNOWN_PROJECT
                   ELSE IF c = <<>> THEN pn_name.v = whole
                   ELSE IF named = <<>> THEN pn_name.v = c
                   ELSE IF IsDotDot(named[Len(named)]) THEN pn_name.v = c
                   ELSE pn_name.v = named[Len(named)]
        /\ pn_cwd = [t |-> "some", v |-> <<"/", "a", "/", "b", "/", "c", "/">>]
               => pn_name.v = <<"c">>
        /\ pn_cwd = [t |-> "some", v |-> <<"/">>] => pn_name.v = <<"/">>
        /\ (pn_fed /\ BareSegment(pn_cwd.v) /\ Trimmed(pn_cwd.v) = pn_cwd.v)
               => pn_name.v = pn_cwd.v

\* C18 witness: the segment returned for a path with directories and
\* trailing slashes was given back and returned again.
C18_Witness ==
    /\ pn_fed
    /\ pn_cwd = [t |-> "some", v |-> <<"app">>]
    /\ pn_name.v = <<"app">>

(***************************************************************************)
(* normalize: properties                                                   *)
(***************************************************************************)
\* The payload is an object whose `key` holds exactly the string s.
HasStr(payload, key, s) ==
    /\ payload.t = "obj"
    /\ key \in DOMAIN payload.o
    /\ payload.o[key] = [t |-> "str", s |-> s]

EventReturned == ev_result # Pending

\* normalize returned an event of this kind for the agent and payload given.
ReturnedKind(kind) ==
    /\ ev_result.v.t = "some"
    /\ ev_result.v.v.agent = ev_agent
    /\ ev_result.v.v.event_kind = kind
    /\ ev_result.v.v.raw_payload = ev_payload

ReturnedNone == ev_result.v = [t |-> "none"]

\* The fixed table of Claude and Codex: the kinds the payload maps to.
TableKinds(agent, payload) ==
    IF agent = "claude"
    THEN {<<"task", "-", "end">> : x \in {1} \cap
              {IF HasStr(payload, "hook_event_name", <<"Stop">>) THEN 1 ELSE 0}}
         \cup
         {<<"plan", "-", "end">> : x \in {1} \cap
              {IF \/ HasStr(payload, "hook_event_name", <<"Subagent", "Stop">>)
                  \/ /\ HasStr(payload, "hook_event_name", <<"Permission", "Request">>)
                     /\ \E k \in {"tool_name", "tool", "query"} :
                            HasStr(payload, k, <<"ExitPlanMode">>)
               THEN 1 ELSE 0}}
    ELSE {<<"task", "-", "end">> : x \in {1} \cap
              {IF HasStr(payload, "type", <<"agent", "-", "turn", "-", "complete">>)
               THEN 1 ELSE 0}}
         \cup
         {<<"plan", "-", "end">> : x \in {1} \cap
              {IF HasStr(payload, "type", <<"agent", "-", "plan", "-", "complete">>)
               THEN 1 ELSE 0}}

\* C15: for Claude and Codex, normalize returns an event iff the payload is
\* an object whose discriminator string is in the fixed table, and the
\* event's kind is the table's; any other or missing discriminator, and a
\* PermissionRequest without tool_name, tool or query equal to
\* "ExitPlanMode", give no event.
C15_FixedTable ==
    (EventReturned /\ ev_agent \in {"claude", "codex"}) =>
        IF TableKinds(ev_agent, ev_payload) = {} THEN ReturnedNone
        ELSE \E kind \in TableKinds(ev_agent, ev_payload) : ReturnedKind(kind)

\* C15 witness: a Claude PermissionRequest whose tool_name is not
\* "ExitPlanMode" while `tool` is, normalized to plan-end.
C15_Witness ==
    /\ EventReturned
    /\ ev_agent = "claude"
    /\ HasStr(ev_payload, "hook_event_name", <<"Permission", "Request">>)
    /\ "tool_name" \in DOMAIN ev_payload.o
    /\ ~HasStr(ev_payload, "tool_name", <<"ExitPlanMode">>)
    /\ HasStr(ev_payload, "tool", <<"ExitPlanMode">>)
    /\ ReturnedKind(<<"plan", "-", "end">>)

\* The kind keys of a generic payload that are present, in lookup order.
PresentKindKeys(payload) ==
    SelectSeq(<<"event_kind", "event-kind", "type", "kind", "event">>,
              LAMBDA k : payload.t = "obj" /\ k \in DOMAIN payload.o)

\* The lower-case form of the string has one of the four markers in it.
Terminal(s) ==
    \E i \in 1..Len(s) : to_ascii_lowercase(s)[i] \in {"complete", "finish", "done", "stop"}

\* C16: for Generic, the event kind is read from the first present of the
\* five keys; a non-string there gives no event, whatever later keys hold;
\* an event is returned iff the lower-case form of that string contains
\* complete, finish, done or stop, and its event_kind is the string as it
\* was given.
C16_GenericKind ==
    (EventReturned /\ ev_agent = "generic") =>
        LET present == PresentKindKeys(ev_payload)
        IN  IF present = <<>> THEN ReturnedNone
            ELSE IF ev_payload.o[present[1]].t # "str" THEN ReturnedNone
            ELSE IF ~Terminal(ev_payload.o[present[1]].s) THEN ReturnedNone
            ELSE ReturnedKind(ev_payload.o[present[1]].s)

\* C16 witness: the first present key holds a mixed-case terminal string,
\* a later key is present too, and the event keeps the string unmodified.
C16_Witness ==
    /\ EventReturned
    /\ ev_agent = "generic"
    /\ Len(PresentKindKeys(ev_payload)) > 1
    /\ HasStr(ev_payload, "event_kind", <<"Task", "-", "finish", "ed">>)
    /\ ReturnedKind(<<"Task", "-", "finish", "ed">>)

\* C16, the refusing case reached: the first present key holds null and a
\* later key holds a terminal string.
C16_WitnessNull ==
    /\ EventReturned
    /\ ev_agent = "generic"
    /\ ev_payload.t = "obj"
    /\ "event_kind" \in DOMAIN ev_payload.o
    /\ ev_payload.o["event_kind"].t = "null"
    /\ HasStr(ev_payload, "event-kind", <<"DONE">>)
    /\ ReturnedNone

\* The payload holds a non-blank string under `key`.
HasUsableStr(payload, key) ==
    /\ payload.t = "obj"
    /\ key \in DOMAIN payload.o
    /\ payload.o[key].t = "str"
    /\ ~Blank(payload.o[key].s)

\* The payload gives normalize something to name the project with.
UsableProjectInfo(agent, payload) ==
    \/ HasUsableStr(payload, "cwd")
    \/ agent = "generic" /\ HasUsableStr(payload, "project")

\* C17 as stated: every event normalize returns has a non-empty event_kind
\* and a non-empty project_name, and its project_name is "unknown project"
\* when the payload holds no usable project information.
C17_Original ==
    (EventReturned /\ ev_result.v.t = "some") =>
        /\ ev_result.v.v.event_kind # <<>>
        /\ ev_result.v.v.project_name # <<>>
        /\ ~UsableProjectInfo(ev_agent, ev_payload)
               => ev_result.v.v.project_name = <<"unknown", " ", "project">>

\* C17, the part that holds: the event_kind of a returned event is never
\* empty, and the project_name is never empty unless the event is a Generic
\* one named by an empty `project` string.
C17_NonEmptyExceptEmptyProject ==
    (EventReturned /\ ev_result.v.t = "some") =>
        /\ ev_result.v.v.event_kind # <<>>
        /\ ev_result.v.v.project_name = <<>> =>
               /\ ev_agent = "generic"
               /\ HasStr(ev_payload, "project", <<>>)
               /\ ~HasUsableStr(ev_payload, "cwd")

(***************************************************************************)
(* Renderer: vocabulary of the properties                                  *)
(***************************************************************************)
RenderReturned == rd_message # Pending

\* A template slot that holds something other than whitespace.
UsableTemplate(slot) == slot # None /\ ~Blank(slot.v)

TemplateResolved ==
    UsableTemplate(rd_templates.agents[rd_event.agent]) \/ UsableTemplate(rd_templates.global)

ResolvedTemplate ==
    IF UsableTemplate(rd_templates.agents[rd_event.agent])
    THEN rd_templates.agents[rd_event.agent].v
    ELSE rd_templates.global.v

\* What the resolved template renders to for the event and its label.
RenderedText ==
    render_atoms(<<>>, ResolvedTemplate, context_from_event(rd_event, rd_label.v), 0)

FallsBack ==
    TemplateResolved /\ (~register_template_string(ResolvedTemplate) \/ Blank(RenderedText))

\* The built-in default template rendered for the event: the values go
\* through the renderer's escaping.
BuiltInMessage ==
    display_name(rd_event.agent) \o <<" ", "finished", " ", "a", " ">> \o html_escape(rd_label.v)
        \o <<" ", "in", " ", "the", " ">> \o html_escape(rd_event.project_name)
        \o <<" ", "project">>

\* The default message with the event's values as they are.
PlainMessage ==
    display_name(rd_event.agent) \o <<" ", "finished", " ", "a", " ">> \o rd_label.v
        \o <<" ", "in", " ", "the", " ">> \o rd_event.project_name \o <<" ", "project">>

\* C19 as stated: render_announcement_message never returns an empty or
\* whitespace-only string, and when the resolved template fails to register
\* or renders to blank output the result is the default message
\* "<agent> finished a <label> in the <project> project" for the same event.
C19_Original ==
    RenderReturned =>
        /\ ~Blank(rd_message.v)
        /\ FallsBack => rd_message.v = PlainMessage

\* C19, what holds: the result is never empty or whitespace-only, and on
\* the fallback it is the built-in default template rendered for the same
\* event, the label and the project name going through the renderer's HTML
\* escaping.
C19_NeverBlankFallsBack ==
    RenderReturned =>
        /\ ~Blank(rd_message.v)
        /\ FallsBack => rd_message.v = BuiltInMessage

\* The agent's template is the unmatched block "{{#if" and the project name
\* is one the renderer escapes.
C19_Witness ==
    /\ RenderReturned
    /\ FallsBack
    /\ ResolvedTemplate = <<"{{#if">>
    /\ \E i \in 1..Len(rd_event.project_name) : rd_event.project_name[i] = "&"
    /\ rd_message.v = BuiltInMessage

\* The template registers and renders to whitespace only.
C19_WitnessBlank ==
    /\ RenderReturned
    /\ TemplateResolved
    /\ register_template_string(ResolvedTemplate)
    /\ Blank(RenderedText)
    /\ rd_message.v = BuiltInMessage

\* The key the labels are looked up under.
LabelKey == to_ascii_lowercase(Trimmed(rd_event.event_kind))

HasLabel(map) == LabelKey \in DOMAIN map
HasUsableLabel(map) == HasLabel(map) /\ ~Blank(map[LabelKey])

AgentLabels == rd_labels.agents[rd_event.agent]

\* Hyphens and underscores turned into spaces, whitespace collapsed.
RECURSIVE Collapsed(_)
Collapsed(s) ==
    IF s = <<>> THEN <<>>
    ELSE IF Head(s) \in {" ", "\t", "-", "_"}
    THEN IF Len(s) > 1 /\ s[2] \notin {" ", "\t", "-", "_"}
         THEN <<" ">> \o Collapsed(Tail(s)) ELSE Collapsed(Tail(s))
    ELSE <<Head(s)>> \o Collapsed(Tail(s))

Humanized ==
    IF Trimmed(Collapsed(rd_event.event_kind)) = <<>> THEN <<"event">>
    ELSE Trimmed(Collapsed(rd_event.event_kind))

\* C20 as stated: the label is the first usable one of the per-agent label,
\* the global label, the alias task-end -> "task" and the humanized event
\* kind.
C20_Original ==
    RenderReturned =>
        rd_label.v = IF HasUsableLabel(AgentLabels) THEN Trimmed(AgentLabels[LabelKey])
                     ELSE IF HasUsableLabel(rd_labels.global)
                     THEN Trimmed(rd_labels.global[LabelKey])
                     ELSE IF LabelKey = <<"task", "-", "end">> THEN <<"task">>
                     ELSE Humanized

\* C20, what holds: the first level that has an entry decides; when that
\* entry is blank the label is the humanized event kind, whatever the lower
\* levels hold.
C20_FirstPresentLevel ==
    RenderReturned =>
        rd_label.v = IF HasLabel(AgentLabels)
                     THEN IF Blank(AgentLabels[LabelKey]) THEN Humanized
                          ELSE Trimmed(AgentLabels[LabelKey])
                     ELSE IF HasLabel(rd_labels.global)
                     THEN IF Blank(rd_labels.global[LabelKey]) THEN Humanized
                          ELSE Trimmed(rd_labels.global[LabelKey])
                     ELSE IF LabelKey = <<"task", "-", "end">> THEN <<"task">>
                     ELSE Humanized

\* A blank per-agent label in front of a usable global label.
C20_Witness ==
    /\ RenderReturned
    /\ HasLabel(AgentLabels)
    /\ Blank(AgentLabels[LabelKey])
    /\ HasUsableLabel(rd_labels.global)
    /\ rd_label.v = Humanized

\* The agents other than the event's agent.
OtherAgents == Agents \ {rd_event.agent}

\* C21: the template body is the per-agent template of the event's agent
\* when it is set and not blank, else the global template under the same
\* condition, else none (the built-in default is rendered); a blank
\* per-agent template does not shadow a non-blank global one, and the
\* template of another agent is never the one used.
C21_TemplatePrecedence ==
    RenderReturned =>
        /\ rd_template.v = IF UsableTemplate(rd_templates.agents[rd_event.agent])
                           THEN rd_templates.agents[rd_event.agent]
                           ELSE IF UsableTemplate(rd_templates.global) THEN rd_templates.global
                           ELSE None
        /\ rd_message.v = IF TemplateResolved /\ ~FallsBack THEN RenderedText
                          ELSE BuiltInMessage
        /\ \A a \in OtherAgents :
               (/\ UsableTemplate(rd_templates.agents[a])
                /\ rd_templates.agents[a] \notin
                       {rd_templates.agents[rd_event.agent], rd_templates.global})
                   => /\ rd_template.v # rd_templates.agents[a]
                      /\ rd_message.v # rd_templates.agents[a].v

\* A blank per-agent template, a non-blank global one that renders, and a
\* template set for the other agents.
C21_Witness ==
    /\ RenderReturned
    /\ rd_templates.agents[rd_event.agent] # None
    /\ Blank(rd_templates.agents[rd_event.agent].v)
    /\ UsableTemplate(rd_templates.global)
    /\ \A a \in OtherAgents : UsableTemplate(rd_templates.agents[a])
    /\ ~FallsBack
    /\ rd_template.v = rd_templates.global
    /\ rd_message.v = RenderedText

(***************************************************************************)
(* Codex: the user's original value                                        *)
(***************************************************************************)
\* The run started with an empty previous_notify and a `notify` that is
\* present and not managed: a foreign string array or any other value.
OriginForeign ==
    /\ codex_origin[2] = None
    /\ codex_origin[1] # None
    /\ ~ManagedNotify(codex_origin[1])

\* The value is in the document or in previous_notify.
HeldSomewhere(item) ==
    \/ doc_notify = item
    \/ /\ IsStringArray(item)
       /\ previous_notify = [t |-> "some", v |-> StringsOf(item)]

\* C26 as stated: whatever the original foreign value of `notify` is, after
\* any sequence of apply_setup and apply_remove it is held in the
\* document's `notify` or in previous_notify.
C26_Original == OriginForeign => HeldSomewhere(codex_origin[1])

\* C26, what holds: an original value that is an array of strings is held
\* in `notify` or in previous_notify after any sequence of calls; any other
\* value is held in `notify` as long as no call has changed the document.
C26_StringArrayKept ==
    OriginForeign =>
        /\ IsStringArray(codex_origin[1]) => HeldSomewhere(codex_origin[1])
        /\ (~IsStringArray(codex_origin[1]) /\ codex_op = "setup")
               => (~HeldSomewhere(codex_origin[1]) /\ previous_notify = None)

\* A foreign string array taken over by a setup and held in previous_notify.
C26_Witness ==
    /\ OriginForeign
    /\ IsStringArray(codex_origin[1])
    /\ codex_op = "setup"
    /\ doc_notify # codex_origin[1]
    /\ previous_notify = [t |-> "some", v |-> StringsOf(codex_origin[1])]

\* The five tokens are among the strings.
ManagedStrings(strings) ==
    \A needle \in {"ingest", "--agent", "codex", "--source", "codex-notify"} :
        \E i \in 1..Len(strings) : strings[i] = needle

\* C28: with setups, removes and edits of `notify` by the user in any
\* order, previous_notify is empty or holds an array that is not managed;
\* a remove that returned true has left a `notify` that is absent or not
\* managed, so is_configured is false right after it.
C28_PreviousNeverManaged ==
    /\ previous_notify # None => ~ManagedStrings(previous_notify.v)
    /\ (codex_op = "remove" /\ codex_changed) =>
           /\ ~ManagedNotify(doc_notify)
           /\ ~codex_is_configured(doc_notify)

\* The user put a managed command of another installation into `notify`
\* while previous_notify held a value; the setup after it kept the slot, and
\* the remove after that restored the held value.
C28_Witness ==
    /\ codex_op = "remove"
    /\ codex_changed
    /\ ManagedNotify(codex_before[1])
    /\ codex_before[2] # None
    /\ NotifyIs(doc_notify, codex_before[2].v)
    /\ codex_run.setups > 0
    /\ ManagedNotify(codex_run.notify)
    /\ codex_run.notify \notin {set_notify(d) : d \in DesiredCommands}
    /\ codex_run.notify # codex_origin[1]

(***************************************************************************)
(* Claude: remove after remove                                             *)
(***************************************************************************)
RemoveTwice == claude_op = "remove" /\ claude_prev[1] = "remove"

\* C29: an apply_remove applied to the document an apply_remove has just
\* left returns false and leaves the document as it is.
C29_RemoveIdempotent ==
    RemoveTwice => (~claude_changed /\ settings = claude_before)

\* The second of two removes, on a document that still holds a foreign hook.
C29_Witness ==
    /\ RemoveTwice
    /\ ~claude_changed
    /\ settings = claude_before
    /\ ~HoldsManaged(settings)
    /\ \E event \in ManagedEventSet :
           \E i \in 1..Len(EventEntries(settings, event)) :
               \E j \in 1..Len(EntryHooks(EventEntries(settings, event)[i])) :
                   IsForeignHook(EntryHooks(EventEntries(settings, event)[i])[j])

(***************************************************************************)
(* Commands: vocabulary of the properties                                  *)
(***************************************************************************)
Invoked(c) == cli.cmd.c = c

NothingWritten == fs = cli.before /\ cli.written = {}

\* What the state file held before the invocation, a missing or blank file
\* holding the default state.
StateBefore ==
    IF cli.before["state"].t = "doc" THEN cli.before["state"].d ELSE default_state

Unparsable(name) == cli.before[name] = GarbageFile

\* The agent is named on the command line of the setup or remove.
Named(agent) == \E i \in 1..Len(cli.cmd.agents) : cli.cmd.agents[i] = agent

\* C22: `config template set` with a template that does not register, and
\* `config event-kind set` with a key or a label that is blank, return an
\* error, write no file and leave every file as it was; a value that passes
\* the checks is stored when the state loads.
C22_RejectedBeforeWrite ==
    /\ Invoked("template_set") =>
           IF cli.cmd.value \in {<<"{{#if">>, <<"{{">>, <<"{{/each}}">>}
           THEN ~cli.ok /\ NothingWritten
           ELSE ~Unparsable("state") =>
                    /\ cli.ok
                    /\ fs["state"].d.templates.agents[cli.cmd.agent.v] =
                           [t |-> "some", v |-> cli.cmd.value]
    /\ Invoked("event_kind_set") =>
           IF Blank(cli.cmd.key) \/ Blank(cli.cmd.value)
           THEN ~cli.ok /\ NothingWritten
           ELSE ~Unparsable("state") =>
                    /\ cli.ok
                    /\ fs["state"].d.event_kind_labels.global[<<"task", "-", "end">>] =
                           Trimmed(cli.cmd.value)

\* `config template set` with the unmatched block "{{#if" over a state file
\* that holds a template.
C22_Witness ==
    /\ Invoked("template_set")
    /\ cli.cmd.value = <<"{{#if">>
    /\ cli.before["state"].t = "doc"
    /\ cli.before["state"].d.templates.agents["codex"] # None
    /\ ~cli.ok
    /\ NothingWritten

\* `config event-kind set` with a blank label.
C22_WitnessLabel ==
    /\ Invoked("event_kind_set")
    /\ ~Blank(cli.cmd.key)
    /\ Blank(cli.cmd.value)
    /\ cli.before["state"].t = "doc"
    /\ ~cli.ok
    /\ NothingWritten

\* The payload text the ingest works on, None when there is none.
PayloadText ==
    IF cli.cmd.source.payload # None THEN cli.cmd.source.payload
    ELSE IF cli.cmd.source.trailing_payload # None THEN cli.cmd.source.trailing_payload
    ELSE cli.cmd.source.stdin

\* The message of the built-in template for the accepted payload.
BuiltInAnnouncement ==
    <<"Codex", " ", "finished", " ", "a", " ", "task", " ", "in", " ", "the", " ", "demo",
      " ", "project">>

C23_WitnessGarbage ==
    /\ Invoked("ingest")
    /\ PayloadText = [t |-> "some", v |-> [t |-> "garbage"]]
    /\ cli.ok
    /\ cli.spoke = None

SetupOrRemove == Invoked("setup") \/ Invoked("remove")

\* The LocalState in memory at the end differs from the one loaded.
StateDiffers == cli.state # None /\ cli.state # StateBefore

\* C24 as stated: in a setup or remove the state file is written iff the
\* LocalState in memory differs from the one loaded, the Claude and the
\* Codex file are written iff their apply_setup or apply_remove returned
\* true, and the second of two identical invocations writes no file.
C24_Original ==
    SetupOrRemove =>
        /\ "state" \in cli.written <=> StateDiffers
        /\ "claude" \in cli.written <=> "claude" \in cli.changed
        /\ "codex" \in cli.written <=> "codex" \in cli.changed
        /\ cli.repeat => cli.written = {}

\* C24, what holds: no file is written needlessly, and in an invocation
\* that returns Ok the state file is written iff the state differs; an
\* invocation that fails after the state changed does not write it.
C24_NoNeedlessWrites ==
    SetupOrRemove =>
        /\ "state" \in cli.written => (StateDiffers /\ cli.ok)
        /\ cli.ok => ("state" \in cli.written <=> StateDiffers)
        /\ "claude" \in cli.written <=> "claude" \in cli.changed
        /\ "codex" \in cli.written <=> "codex" \in cli.changed
        /\ \A name \in FileNames : name \notin cli.written => fs[name] = cli.before[name]
        /\ cli.repeat => (cli.written = {} /\ fs = cli.before)

\* The second of two identical setups of both agents.
C24_Witness ==
    /\ Invoked("setup")
    /\ cli.repeat
    /\ cli.cmd.agents = <<"claude", "codex">>
    /\ cli.ok
    /\ cli.written = {}
    /\ fs["claude"].t = "doc"
    /\ fs["codex"].t = "doc"

\* The document FileOf holds.
FreshCodex(exe) ==
    [t |-> "arr",
     a |-> <<[t |-> "str", s |-> exe], [t |-> "str", s |-> "ingest"],
             [t |-> "str", s |-> "--agent"], [t |-> "str", s |-> "codex"],
             [t |-> "str", s |-> "--source"], [t |-> "str", s |-> "codex-notify"]>>]

Absent(name) == cli.before[name].t \in {"missing", "blank"}

\* C25: a missing or blank file loads as the empty document or the default
\* state without error, a remove leaves a missing Claude or Codex file
\* missing, and a file that does not parse makes the command that loads it
\* return an error and is left as it is.
C25_LoadSemantics ==
    /\ SetupOrRemove =>
           /\ cli.ok <=> ~(\/ Unparsable("state")
                           \/ Named("claude") /\ Unparsable("claude")
                           \/ Named("codex") /\ Unparsable("codex"))
           /\ \A name \in FileNames : Unparsable(name) => fs[name] = GarbageFile
           /\ Unparsable("state") => NothingWritten
           /\ (cli.ok /\ Absent("state")) =>
                  cli.state = [default_state EXCEPT
                                   !.previous_notify = cli.state.previous_notify]
    /\ Invoked("setup") =>
           /\ (cli.ok /\ Named("claude") /\ Absent("claude")) =>
                  fs["claude"] =
                      [t |-> "doc", d |-> FreshSetup(managed_command("'/tmp/agitiser-notify'"))]
           /\ (cli.ok /\ Named("codex") /\ Absent("codex")) =>
                  /\ fs["codex"] = [t |-> "doc", d |-> FreshCodex("/tmp/agitiser-notify")]
                  /\ cli.state.previous_notify = StateBefore.previous_notify
    /\ Invoked("remove") =>
           \A name \in {"claude", "codex"} :
               /\ cli.before[name] = MissingFile => fs[name] = MissingFile
               /\ (cli.ok /\ Absent(name)) => fs[name] = cli.before[name]
    /\ (Invoked("template_set") \/ Invoked("event_kind_set")) =>
           (Unparsable("state") => (~cli.ok /\ NothingWritten))

\* A setup of both agents with a Claude file that does not parse, a blank
\* Codex file and a missing state file.
C25_Witness ==
    /\ Invoked("setup")
    /\ cli.cmd.agents = <<"codex", "claude">>
    /\ Unparsable("claude")
    /\ cli.before["codex"] = BlankFile
    /\ cli.before["state"] = MissingFile
    /\ ~cli.ok
    /\ fs["claude"] = GarbageFile
    /\ fs["codex"].t = "doc"

\* A remove over missing files.
C25_WitnessRemove ==
    /\ Invoked("remove")
    /\ \A name \in FileNames : cli.before[name] = MissingFile
    /\ Named("claude")
    /\ Named("codex")
    /\ cli.ok
    /\ fs = cli.before

\* The Codex step of a setup captured a foreign `notify` into an empty
\* previous_notify and rewrote the Codex file.
Captured ==
    /\ Invoked("setup")
    /\ "codex" \in cli.written
    /\ StateBefore.previous_notify = None
    /\ cli.before["codex"].t = "doc"
    /\ ForeignNotify(cli.before["codex"].d)

\* The Codex step of a remove restored the held value into the Codex file.
Restored ==
    /\ Invoked("remove")
    /\ "codex" \in cli.written
    /\ StateBefore.previous_notify # None

\* The state file holds `previous` as previous_notify.
StateFileHolds(previous) == fs["state"].t = "doc" /\ fs["state"].d.previous_notify = previous

\* C27 as stated: when the Codex step of a setup captured a foreign `notify`
\* and rewrote the Codex file, the state file holds the captured value at
\* the end of the invocation, also when a later step failed; after a remove
\* that restored the value, the state file no longer holds it.
C27_Original ==
    /\ Captured => StateFileHolds([t |-> "some", v |-> StringsOf(cli.before["codex"].d)])
    /\ Restored => StateFileHolds([t |-> "none"])

\* C27, what holds: the state file follows the Codex file in the
\* invocations that return Ok; when a later step fails the state file is
\* left as it was.
C27_PersistedWhenOk ==
    /\ (Captured /\ cli.ok)
           => StateFileHolds([t |-> "some", v |-> StringsOf(cli.before["codex"].d)])
    /\ (Restored /\ cli.ok) => StateFileHolds([t |-> "none"])
    /\ ((Captured \/ Restored) /\ ~cli.ok) => fs["state"] = cli.before["state"]

\* setup --agents codex,claude with a Claude file that does not parse: the
\* Codex file holds the managed command and no file holds the user's value.
C27_Witness ==
    /\ Captured
    /\ ~cli.ok
    /\ cli.cmd.agents = <<"codex", "claude">>
    /\ Unparsable("claude")
    /\ fs["codex"] = [t |-> "doc", d |-> FreshCodex("/tmp/agitiser-notify")]
    /\ ~StateFileHolds([t |-> "some", v |-> StringsOf(cli.before["codex"].d)])


(***************************************************************************)
(* Two invocations at once: vocabulary of the properties                   *)
(***************************************************************************)
RaceFiles == {"codex", "state"}

RaceOn == race.p # <<>>

AllDone == RaceOn /\ \A i \in Invocations : race.p[i].pc = "done"

BothOk == RaceOn /\ \A i \in Invocations : race.p[i].ok

\* Invocation i wrote the file.
Wrote(i, file) == race.p[i].wrote[file] # None

\* Invocation i has opened the file for writing.
Opened(i, file) ==
    \/ Wrote(i, file)
    \/ race.p[i].pc = (IF file = "codex" THEN "write_codex" ELSE "write_state")

\* The file holds exactly what invocation i wrote.
OutputOf(i, file) ==
    Wrote(i, file) /\ rfs[file] = TextFile(race.p[i].wrote[file].v)

\* The file holds the whole text of invocation i followed by the end of the
\* longer text of invocation j.
Merge(i, j, file) ==
    /\ Wrote(i, file)
    /\ Wrote(j, file)
    /\ Len(race.p[i].wrote[file].v) < Len(race.p[j].wrote[file].v)
    /\ rfs[file] = TextFile(write_all(race.p[j].wrote[file].v, race.p[i].wrote[file].v))

Untouched(file) ==
    /\ \A i \in Invocations : ~Wrote(i, file)
    /\ rfs[file] = race.start[file]

\* C30 as stated: when both invocations have ended, every file holds what
\* it held at the start or the complete output of one invocation, never a
\* mixture of the two outputs.
C30_Original ==
    AllDone => \A file \in RaceFiles :
        \/ rfs[file] = race.start[file]
        \/ \E i \in Invocations : OutputOf(i, file)

\* C30, what holds: an invocation loads a file before it writes it and
\* loads it from what the file holds then; a file that nobody wrote is
\* untouched; a file that was written holds, when both have ended, the
\* complete output of one invocation, or the complete shorter output of one
\* followed by the end of the other's longer output.
C30_LastWriterWins ==
    /\ RaceOn => \A i \in Invocations, file \in RaceFiles :
           Opened(i, file) => race.p[i].read[file] # None
    /\ RaceOn => \A file \in RaceFiles :
           (\A i \in Invocations : ~Opened(i, file)) => rfs[file] = race.start[file]
    /\ AllDone => \A file \in RaceFiles :
           \/ Untouched(file)
           \/ \E i \in Invocations : OutputOf(i, file)
           \/ \E i \in Invocations, j \in Invocations : i # j /\ Merge(i, j, file)

\* Both invocations loaded the same Codex config, both wrote it, and the
\* file holds the output of one of them only.
C30_Witness ==
    /\ AllDone
    /\ BothOk
    /\ race.p[1].read["codex"] = Some(race.start["codex"])
    /\ race.p[2].read["codex"] = Some(race.start["codex"])
    /\ Wrote(1, "codex")
    /\ Wrote(2, "codex")
    /\ race.p[1].wrote["codex"] # race.p[2].wrote["codex"]
    /\ \E i \in Invocations : OutputOf(i, "codex")

\* Every file is whole, yet the pair is what no serial order leaves.
C30_WitnessNotSerial ==
    /\ AllDone
    /\ BothOk
    /\ \A file \in RaceFiles : Untouched(file) \/ \E i \in Invocations : OutputOf(i, file)
    /\ rfs \notin race.serial

\* The Codex config holds a mixture of the two outputs.
C30_WitnessMerge ==
    /\ AllDone
    /\ \E i \in Invocations, j \in Invocations : i # j /\ Merge(i, j, "codex")
    /\ \A i \in Invocations : ~OutputOf(i, "codex")

====
